---------------------------- MODULE Spec2Model ----------------------------
(***************************************************************************)
(* A model of the ISO-NE load pipeline:                                    *)
(*   - the history store of poll_isone_to_history.py (daily CSV partitions *)
(*     written by _append_idempotent through write_history_system and      *)
(*     write_history_zonal),                                               *)
(*   - the ingestion cycles of poll_isone_to_history.py, pipeline.py and   *)
(*     backfill_isone_days.py,                                             *)
(*   - the zonal normalizer of fetch_isone_fivemin_zonal_load.py.          *)
(*                                                                         *)
(* Text is a sequence of one-character strings, so that strip, upper,      *)
(* isdigit, prefix removal and the CSV type inference of pandas.read_csv   *)
(* are computed on the characters.  A DataFrame is a sequence of rows; a   *)
(* CSV file is a sequence of rows of text cells.                           *)
(***************************************************************************)
EXTENDS Integers, Sequences, FiniteSets, TLC

VARIABLES
    fs,      \* the files under data/: path -> [exists, rows]
    calls,   \* number of write_history_* calls started so far
    last,    \* record of the most recent completed write_history_* call
    wr,      \* per writer process: position inside write_history_*
    committed, \* per partition: the file a sequence of complete appends gives
    cyc,     \* the ingestion cycle in progress (run_once / one backfilled day)
    nz,      \* a normalizer call: its payload and its result
    wh,      \* the warehouse: the views of the DuckDB file, the last rebuilds
    lp       \* a polling loop (run_loop): its position and its stop flag

vars == <<fs, calls, last, wr, committed, cyc, nz, wh, lp>>

(***************************************************************************)
(* Bounds of the model.                                                    *)
(***************************************************************************)
MaxCalls == 2
MaxStarts == 2
TicksPerDay == 2
MaxBuilds == 1

(***************************************************************************)
(* Text.                                                                   *)
(***************************************************************************)
DigitChars == <<"0", "1", "2", "3", "4", "5", "6", "7", "8", "9">>

IsDigitChar(c) == \E i \in 1..10 : DigitChars[i] = c

DigitVal(c) == (CHOOSE i \in 1..10 : DigitChars[i] = c) - 1

\* str.isdigit(): non-empty and every character a digit
IsDigit(s) == s # <<>> /\ \A i \in 1..Len(s) : IsDigitChar(s[i])

RECURSIVE StrToInt(_)
StrToInt(s) ==
    IF s = <<>> THEN 0
    ELSE 10 * StrToInt(SubSeq(s, 1, Len(s) - 1)) + DigitVal(s[Len(s)])

RECURSIVE IntToStr(_)
IntToStr(n) ==
    IF n < 10 THEN <<DigitChars[n + 1]>>
    ELSE Append(IntToStr(n \div 10), DigitChars[(n % 10) + 1])

\* two digits, as in a date
Digits2(n) == IF n < 10 THEN <<"0">> \o IntToStr(n) ELSE IntToStr(n)

S_ISONE == <<"I", "S", "O", "N", "E">>
S_NE    == <<"N", "E">>
S_4004  == <<"4", "0", "0", "4">>
S_4005  == <<"4", "0", "0", "5">>

(***************************************************************************)
(* Values held in a DataFrame cell.  ty is the Python type of the object:  *)
(* "str" (text s), "int" and "float" (number n; a float n stands for n.0), *)
(* "ts" (a UTC Timestamp, n five-minute ticks after the epoch of the       *)
(* model) and "null" (None or NaN).                                        *)
(***************************************************************************)
Null      == [ty |-> "null",  s |-> <<>>, n |-> 0]
Str(s)    == [ty |-> "str",   s |-> s,    n |-> 0]
IntV(n)   == [ty |-> "int",   s |-> <<>>, n |-> n]
FloatV(n) == [ty |-> "float", s |-> <<>>, n |-> n]
TsV(n)    == [ty |-> "ts",    s |-> <<>>, n |-> n]

IsNum(v) == v.ty \in {"int", "float"}

\* the equality drop_duplicates uses when it factorizes a column: missing
\* values are one group, int and float compare by value, and a str is never
\* equal to a number
ValEq(a, b) ==
    \/ a.ty = "null" /\ b.ty = "null"
    \/ a.ty = "str" /\ b.ty = "str" /\ a.s = b.s
    \/ IsNum(a) /\ IsNum(b) /\ a.n = b.n
    \/ a.ty = "ts" /\ b.ty = "ts" /\ a.n = b.n

(***************************************************************************)
(* JSON payloads: null, strings, numbers, maps (their entries in order)    *)
(* and lists.                                                              *)
(***************************************************************************)
JNull     == [ty |-> "null"]
JStr(s)   == [ty |-> "str", s |-> s]
JNum(n)   == [ty |-> "num", n |-> n]
JMap(es)  == [ty |-> "map", es |-> es]
JList(xs) == [ty |-> "list", xs |-> xs]

\* k in d
HasKey(d, k) == \E i \in 1..Len(d.es) : d.es[i][1] = k

\* d[k]
Get(d, k) == d.es[CHOOSE i \in 1..Len(d.es) : d.es[i][1] = k][2]

\* v not in (None, "")
NotBlank(v) == ~(v.ty = "null" \/ (v.ty = "str" /\ v.s = <<>>))

(***************************************************************************)
(* More text: strip, upper, order.                                         *)
(***************************************************************************)
LowerChars == <<"a", "b", "c", "d", "e", "f", "g", "h", "i", "j", "k", "l", "m",
                "n", "o", "p", "q", "r", "s", "t", "u", "v", "w", "x", "y", "z">>
UpperChars == <<"A", "B", "C", "D", "E", "F", "G", "H", "I", "J", "K", "L", "M",
                "N", "O", "P", "Q", "R", "S", "T", "U", "V", "W", "X", "Y", "Z">>

UpperChar(c) ==
    IF \E i \in 1..26 : LowerChars[i] = c
    THEN UpperChars[CHOOSE i \in 1..26 : LowerChars[i] = c]
    ELSE c

\* str.upper()
Upper(s) == [i \in 1..Len(s) |-> UpperChar(s[i])]

RECURSIVE LStrip(_)
LStrip(s) == IF s # <<>> /\ s[1] = " " THEN LStrip(Tail(s)) ELSE s

RECURSIVE RStrip(_)
RStrip(s) ==
    IF s # <<>> /\ s[Len(s)] = " " THEN RStrip(SubSeq(s, 1, Len(s) - 1)) ELSE s

\* str.strip()
Strip(s) == RStrip(LStrip(s))

\* s.startswith(p)
StartsWith(s, p) == Len(s) >= Len(p) /\ SubSeq(s, 1, Len(p)) = p

S_4001 == <<"4", "0", "0", "1">>
S_4002 == <<"4", "0", "0", "2">>
S_4003 == <<"4", "0", "0", "3">>
S_4006 == <<"4", "0", "0", "6">>
S_4007 == <<"4", "0", "0", "7">>
S_4008 == <<"4", "0", "0", "8">>
S_4000 == <<"4", "0", "0", "0">>
S_ME == <<"M", "E">>
S_NH == <<"N", "H">>
S_VT == <<"V", "T">>
S_CT == <<"C", "T">>
S_RI == <<"R", "I">>
S_SEMA == <<"S", "E", "M", "A">>
S_WCMA == <<"W", "C", "M", "A">>
S_NEMA_Boston == <<"N", "E", "M", "A", "/", "B", "o", "s", "t", "o", "n">>
S_HUB == <<"H", "U", "B">>
S_sema == <<"s", "e", "m", "a">>
S_Z_CT == <<".", "Z", ".", "C", "T">>
S_FOO == <<"F", "O", "O">>
S_ABC == <<"A", "B", "C">>
S_4004_padded == <<" ", "4", "0", "0", "4", " ">>
S_DotZDot == <<".", "Z", ".">>
S_bad == <<"b", "a", "d">>
S_nan == <<"n", "a", "n">>
S_NEPOOL == <<"N", "E", "P", "O", "O", "L">>
S_NEWENGLAND == <<"N", "E", "W", "E", "N", "G", "L", "A", "N", "D">>
S_isone == <<"i", "s", "o", "n", "e">>
T_NAIVE == <<"2", "0", "2", "4", "-", "0", "1", "-", "0", "1", "T", "0", "0", ":", "0", "5", ":", "0", "0">>
T_ZULU == <<"2", "0", "2", "4", "-", "0", "1", "-", "0", "1", "T", "0", "0", ":", "1", "0", ":", "0", "0", "Z">>
T_EST == <<"2", "0", "2", "4", "-", "0", "1", "-", "0", "1", "T", "0", "0", ":", "1", "0", ":", "0", "0", "-", "0", "5", ":", "0", "0">>
TZ_UTC == <<"+", "0", "0", ":", "0", "0">>
TZ_EST == <<"-", "0", "5", ":", "0", "0">>

(***************************************************************************)
(* CSV: DataFrame.to_csv and pandas.read_csv.                              *)
(***************************************************************************)
\* the text to_csv writes for one cell: str as is, int in decimal, float
\* with its ".0", a missing value as the empty field
CellText(v) ==
    CASE v.ty = "str"   -> v.s
      [] v.ty = "int"   -> IntToStr(v.n)
      [] v.ty = "float" -> IntToStr(v.n) \o <<".", "0">>
      [] OTHER          -> <<>>

\* a timestamp is written as "YYYY-MM-DD HH:MM:SS+00:00"; the text determines
\* the instant and parse_dates reads the same instant back, so the file cell
\* of ts_utc is kept as the instant; the cell of NaT is empty and is read
\* back as NaT
CsvRow(r) ==
    [ts_utc |-> r.ts_utc, id |-> CellText(r.id), load_mw |-> CellText(r.load_mw)]

ToCsv(df) == [i \in 1..Len(df) |-> CsvRow(df[i])]

IsIntText(c) == IsDigit(c)

\* digits "." "0": the only float texts to_csv produces here
IsFloatText(c) ==
    /\ Len(c) >= 3
    /\ c[Len(c)] = "0"
    /\ c[Len(c) - 1] = "."
    /\ IsDigit(SubSeq(c, 1, Len(c) - 2))

\* read_csv infers one dtype per column: int64 when every field is an
\* integer, float64 when every field is a number or empty, object otherwise
ColumnType(cells) ==
    IF \A i \in 1..Len(cells) : IsIntText(cells[i]) THEN "int"
    ELSE IF \A i \in 1..Len(cells) :
                cells[i] = <<>> \/ IsIntText(cells[i]) \/ IsFloatText(cells[i])
         THEN "float"
         ELSE "object"

ParseCell(c, coltype) ==
    IF c = <<>> THEN Null
    ELSE CASE coltype = "int"   -> IntV(StrToInt(c))
           [] coltype = "float" ->
                IF IsIntText(c) THEN FloatV(StrToInt(c))
                ELSE FloatV(StrToInt(SubSeq(c, 1, Len(c) - 2)))
           [] OTHER             -> Str(c)

ReadCsv(rows) ==
    LET idType   == ColumnType([i \in 1..Len(rows) |-> rows[i].id])
        loadType == ColumnType([i \in 1..Len(rows) |-> rows[i].load_mw])
    IN  [i \in 1..Len(rows) |->
            [ts_utc  |-> rows[i].ts_utc,
             id      |-> ParseCell(rows[i].id, idType),
             load_mw |-> ParseCell(rows[i].load_mw, loadType)]]

(***************************************************************************)
(* Paths and files.                                                        *)
(***************************************************************************)
Datasets == {"system", "zonal"}

Prefix(ds) == IF ds = "system" THEN "system_load" ELSE "zonal_load"

\* Path("data/history") / f"{prefix}_{date_str}.csv"
HistPath(ds, date) == <<Prefix(ds), date, ".csv">>

\* data/warehouse/<subdir>
WhSubdir(ds) ==
    IF ds = "system" THEN "warehouse/system_load" ELSE "warehouse/zonal_load"

\* the name of the history partition of (ds, date)
SegInHistory(ds, date) == HistPath(ds, date)

\* WH_DIR / subdir / f"date={date_str}" / f"part-{file_tag}-{date}.parquet"
SegPath(ds, date) == <<WhSubdir(ds), date, ".parquet">>

\* out_file.with_suffix(".parquet.tmp")
SegTmp(out_file) == <<out_file[1], out_file[2], ".parquet.tmp">>

\* one temporary name for every partition
TmpPathShared(path) == <<"tmp", 0, ".tmp">>

\* no temporary file: the partition file itself
InPlace(path) == path

\* path.with_suffix(path.suffix + ".tmp")
TmpPath(path) == <<path[1], path[2], path[3] \o ".tmp">>

NoFile == [exists |-> FALSE, rows |-> <<>>]

FileOf(rows) == [exists |-> TRUE, rows |-> rows]

(***************************************************************************)
(* File names as text, and the matching of a name against a glob pattern.  *)
(* Day 0 is 2024-01-01.                                                    *)
(***************************************************************************)
\* the date string "NaT" that .dt.date.astype(str) gives for a missing
\* ts_utc; as a name it sorts after every calendar date
NaTDate == 9

N_system_load == <<"s", "y", "s", "t", "e", "m", "_", "l", "o", "a", "d">>
N_zonal_load == <<"z", "o", "n", "a", "l", "_", "l", "o", "a", "d">>
N_2024_01 == <<"2", "0", "2", "4", "-", "0", "1", "-">>
N_202401 == <<"2", "0", "2", "4", "0", "1">>
N_NaT == <<"N", "a", "T">>
N_date == <<"d", "a", "t", "e", "=">>
N_part == <<"p", "a", "r", "t", "-", "I", "S", "O", "N", "E", "-">>
N_csv == <<".", "c", "s", "v">>
N_parquet == <<".", "p", "a", "r", "q", "u", "e", "t">>
N_tmp == <<".", "t", "m", "p">>

\* date_str of day d
DateText(d) == IF d = NaTDate THEN N_NaT ELSE N_2024_01 \o Digits2(d + 1)

\* date_str.replace('-', '')
DateCompact(d) == IF d = NaTDate THEN N_NaT ELSE N_202401 \o Digits2(d + 1)

SuffixText(sfx) ==
    CASE sfx = ".csv"         -> N_csv
      [] sfx = ".csv.tmp"     -> N_csv \o N_tmp
      [] sfx = ".parquet"     -> N_parquet
      [] sfx = ".parquet.tmp" -> N_parquet \o N_tmp
      [] OTHER                -> N_tmp

InHistory(p) == p[1] \in {"system_load", "zonal_load", "tmp"}

\* the name of p under data/history, or under data/warehouse/<subdir>
FileName(p) ==
    CASE p[1] = "system_load" ->
            N_system_load \o <<"_">> \o DateText(p[2]) \o SuffixText(p[3])
      [] p[1] = "zonal_load" ->
            N_zonal_load \o <<"_">> \o DateText(p[2]) \o SuffixText(p[3])
      [] p[1] = "tmp" -> <<"t", "m", "p">> \o SuffixText(p[3])
      [] OTHER ->
            N_date \o DateText(p[2]) \o <<"/">> \o N_part \o DateCompact(p[2])
            \o SuffixText(p[3])

\* glob matching: "*" stands for any run of characters within one path
\* component, every other character for itself
RECURSIVE GlobMatch(_, _)
GlobMatch(name, pat) ==
    IF pat = <<>> THEN name = <<>>
    ELSE IF Head(pat) = "*"
         THEN \/ GlobMatch(name, Tail(pat))
              \/ name # <<>> /\ Head(name) # "/" /\ GlobMatch(Tail(name), pat)
         ELSE name # <<>> /\ Head(name) = Head(pat)
              /\ GlobMatch(Tail(name), Tail(pat))

\* a pattern that also takes what follows ".csv"
HistPatternLoose(ds) ==
    (IF ds = "system" THEN N_system_load ELSE N_zonal_load) \o <<"_", "*">>

\* "system_load_*.csv" / "zonal_load_*.csv"
HistPattern(ds) ==
    (IF ds = "system" THEN N_system_load ELSE N_zonal_load)
    \o <<"_", "*">> \o N_csv

\* a pattern that also takes what follows ".parquet"
SegPatternLoose == N_date \o <<"*", "/">> \o <<"p", "a", "r", "t", "-", "*">>

\* "date=*/part-*.parquet"
SegPattern ==
    N_date \o <<"*", "/">> \o <<"p", "a", "r", "t", "-", "*">> \o N_parquet

(***************************************************************************)
(* _append_idempotent.                                                     *)
(***************************************************************************)
\* key_cols of write_history_system (ts_utc, location) and of
\* write_history_zonal (ts_utc, zone_id); the column is "id" in both
KeyCols(ds) == {"ts_utc", "id"}

SameKey(r1, r2, key_cols) == \A c \in key_cols : ValEq(r1[c], r2[c])

\* if path.exists(): read_csv(...) else an empty frame
LoadOld(f, path) == IF f[path].exists THEN ReadCsv(f[path].rows) ELSE <<>>

RECURSIVE KeepLast(_, _)
KeepLast(df, key_cols) ==
    IF df = <<>> THEN <<>>
    ELSE LET r == df[1]
             rest == Tail(df)
         IN  IF \E j \in 1..Len(rest) : SameKey(rest[j], r, key_cols)
             THEN KeepLast(rest, key_cols)
             ELSE <<r>> \o KeepLast(rest, key_cols)

RECURSIVE KeepFirst(_, _)
KeepFirst(df, key_cols) ==
    IF df = <<>> THEN <<>>
    ELSE LET init == KeepFirst(SubSeq(df, 1, Len(df) - 1), key_cols)
             r == df[Len(df)]
         IN  IF \E j \in 1..Len(df) - 1 : SameKey(df[j], r, key_cols)
             THEN init
             ELSE Append(init, r)

\* df.drop_duplicates(subset=key_cols): keep="first" is the default
DropDuplicates(df, key_cols) == KeepFirst(df, key_cols)

\* the order of ts_utc, NaT last
TsLess(a, b) == a.ty # "null" /\ (b.ty = "null" \/ a.n < b.n)

RECURSIVE InsertByTs(_, _)
InsertByTs(sorted, r) ==
    IF sorted = <<>> THEN <<r>>
    ELSE IF ~TsLess(r.ts_utc, sorted[Len(sorted)].ts_utc) THEN Append(sorted, r)
         ELSE Append(InsertByTs(SubSeq(sorted, 1, Len(sorted) - 1), r),
                     sorted[Len(sorted)])

RECURSIVE SortTs(_)
SortTs(df) ==
    IF df = <<>> THEN <<>>
    ELSE InsertByTs(SortTs(SubSeq(df, 1, Len(df) - 1)), df[Len(df)])

NoSort(df) == df

\* df.sort_values("ts_utc"): rows of equal ts_utc keep their order (the
\* frames here are short enough for the sort to be an insertion sort)
SortValues(df) == SortTs(df)

\* concat, drop_duplicates, sort_values, reset_index
MergeFrames(df_old, df_new, key_cols) ==
    SortValues(DropDuplicates(df_old \o df_new, key_cols))

\* tmp.replace(path)
Replace(f, tmp, path) == [f EXCEPT ![path] = f[tmp], ![tmp] = NoFile]

\* the files after _append_idempotent(df_new, path, key_cols) has returned
AppendIdempotent(f, df_new, path, key_cols) ==
    LET df_old == LoadOld(f, path)
        df_all == MergeFrames(df_old, df_new, key_cols)
        tmp    == TmpPath(path)
        f1     == [f EXCEPT ![tmp] = FileOf(ToCsv(df_all))]
    IN  Replace(f1, tmp, path)

\* its return value: after - len(df_old)
RowsAdded(f, df_new, path, key_cols) ==
    LET df_old == LoadOld(f, path)
    IN  Len(MergeFrames(df_old, df_new, key_cols)) - Len(df_old)

(***************************************************************************)
(* write_history_system / write_history_zonal.                             *)
(***************************************************************************)

\* the UTC calendar date of a timestamp, as .dt.date does
DateOf(ts) == IF ts.ty = "null" THEN NaTDate ELSE ts.n \div TicksPerDay

\* _utc_dates_in_df(df, "ts_utc")
UtcDatesInDf(df) == {DateOf(df[i].ts_utc) : i \in 1..Len(df)}

\* df[pd.to_datetime(df["ts_utc"], utc=True).dt.date.astype(str) == date_str]
DayRows(df, date) == SelectSeq(df, LAMBDA r : DateOf(r.ts_utc) = date)

RECURSIVE WriteDates(_, _, _, _)
WriteDates(f, ds, df, dates) ==
    IF dates = {} THEN f
    ELSE LET d == CHOOSE x \in dates : TRUE
         IN  WriteDates(
                 AppendIdempotent(f, DayRows(df, d), HistPath(ds, d), KeyCols(ds)),
                 ds, df, dates \ {d})

\* the files after write_history_system(df) / write_history_zonal(df)
WriteHistory(f, ds, df) == WriteDates(f, ds, df, UtcDatesInDf(df))

\* the summary it returns, {date_str: added_rows}, as a set of pairs; every
\* date has its own partition file, so the summary of a date depends only on
\* the files before the call
WriteHistoryOut(f, ds, df) ==
    {<<d, RowsAdded(f, DayRows(df, d), HistPath(ds, d), KeyCols(ds))>> :
        d \in UtcDatesInDf(df)}

(***************************************************************************)
(* The batches offered to the store: frames as the normalizers return      *)
(* them, sorted by (ts_utc, location) or (ts_utc, zone_id).  location is a *)
(* str; zone_id is a str of digits, or None for a zone known by name only. *)
(***************************************************************************)
Row(t, id, mw) == [ts_utc |-> TsV(t), id |-> id, load_mw |-> FloatV(mw)]

RowUniverse(ds) ==
    IF ds = "system"
    THEN << Row(0, Str(S_ISONE), 1), Row(0, Str(S_ISONE), 2), Row(0, Str(S_NE), 1),
            Row(1, Str(S_ISONE), 1), Row(2, Str(S_ISONE), 1) >>
    ELSE << Row(0, Str(S_4004), 1), Row(0, Str(S_4004), 2), Row(0, Str(S_4005), 1),
            Row(0, Null, 1), Row(1, Str(S_4004), 1), Row(2, Str(S_4004), 1) >>

RECURSIVE Pick(_, _, _)
Pick(u, I, i) ==
    IF i > Len(u) THEN <<>>
    ELSE IF i \in I THEN <<u[i]>> \o Pick(u, I, i + 1)
         ELSE Pick(u, I, i + 1)

\* the frames of one or two rows of the universe
Batches(ds) ==
    {Pick(RowUniverse(ds), I, 1) :
        I \in {J \in SUBSET (1..Len(RowUniverse(ds))) : Cardinality(J) \in {1, 2}}}

Days == {DateOf(TsV(t)) : t \in 0..2} \cup {NaTDate}

Paths == UNION {{HistPath(ds, d), TmpPath(HistPath(ds, d))} : ds \in Datasets, d \in Days}
         \cup {TmpPathShared(HistPath("system", 0))}
         \cup UNION {{SegPath(ds, d), SegTmp(SegPath(ds, d))} : ds \in Datasets, d \in Days}

HistPaths == {HistPath(ds, d) : ds \in Datasets, d \in Days}

EmptyStore == [p \in Paths |-> NoFile]

\* no call yet; pds, pbatch and pbefore are the dataset, the batch and the
\* files-before of the call that preceded the recorded one
NoCall == [ds |-> "none", batch |-> <<>>, before |-> EmptyStore, added |-> {},
           pds |-> "none", pbatch |-> <<>>, pbefore |-> EmptyStore]

Writers == {"w1", "w2"}

\* a writer process: the call it is in (ds, df), the dates still to write
\* (todo), the partition being written (date), and inside _append_idempotent:
\* the file as it was read (snap), len(df_old) (n_old), the merged frame
\* (df_all), the summary so far (out); crashed_at is where it was killed
WrIdle == [pc |-> "idle", ds |-> "system", df |-> <<>>, todo |-> {}, date |-> 0,
           snap |-> NoFile, n_old |-> 0, df_all |-> <<>>, out |-> {},
           crashed_at |-> "none"]
\* an ingestion cycle: which function runs it (kind), its --only argument,
\* what the two endpoints answer in this cycle (up), the datasets whose
\* frame was fetched (got) and appended to history (appended), those whose
\* exception was caught and logged (logged)
CycIdle == [pc |-> "idle", kind |-> "none", only |-> "none",
            up |-> [ds \in {"system", "zonal"} |-> "ok"],
            got |-> {}, appended |-> {}, logged |-> {}]
NzIdle == [pc |-> "idle", kind |-> "none", payload |-> JNull, rows |-> <<>>, out |-> <<>>,
           debug |-> JNull]

\* no view defined
NoView == [defined |-> FALSE, kind |-> "none", rows |-> <<>>]

\* the parity card before the dashboard has run
NoCard == [shown |-> FALSE, na |-> FALSE, nan |-> FALSE, system |-> 0,
           zones_sum |-> 0, text |-> <<>>]

\* the warehouse before any rebuild; card is what the dashboard last showed
\* and cfiles the files on disk when it ran its queries
WhIdle == [views |-> [ds \in Datasets |-> NoView],
           card |-> NoCard,
           cfiles |-> EmptyStore,
           builds |-> 0,
           written |-> [ds \in Datasets |-> 0],
           hist |-> EmptyStore,
           pwritten |-> [ds \in Datasets |-> 0],
           phist |-> EmptyStore,
           pfiles |-> EmptyStore,
           vfiles |-> EmptyStore]

\* no loop running; seen is the stop flag as the loop last tested it,
\* raised counts the cycles that raised, late_cycles and late_sleeps the
\* cycles and sleeps begun with the stop flag set
LpIdle == [loop |-> "none", only |-> "none", pc |-> "idle", stop |-> FALSE,
           seen |-> FALSE, raised |-> 0, late_cycles |-> 0, late_sleeps |-> 0]

(***************************************************************************)
(* The store driven by complete calls: each step is one call of            *)
(* write_history_system or write_history_zonal.                            *)
(***************************************************************************)
Init ==
    /\ fs = EmptyStore
    /\ calls = 0
    /\ last = NoCall
    /\ wr = [w \in Writers |-> WrIdle]
    /\ committed = [p \in HistPaths |-> NoFile]
    /\ cyc = CycIdle
    /\ nz = NzIdle
    /\ wh = WhIdle
    /\ lp = LpIdle

AppendBatch(ds, df) ==
    /\ calls < MaxCalls
    /\ calls' = calls + 1
    /\ fs' = WriteHistory(fs, ds, df)
    /\ last' = [ds |-> ds, batch |-> df, before |-> fs,
                added |-> WriteHistoryOut(fs, ds, df),
                pds |-> last.ds, pbatch |-> last.batch, pbefore |-> last.before]
    /\ committed' = [p \in HistPaths |-> fs'[p]]
    /\ UNCHANGED <<wr, cyc, nz, wh, lp>>

WriteHistorySystem == \E df \in Batches("system") : AppendBatch("system", df)

WriteHistoryZonal == \E df \in Batches("zonal") : AppendBatch("zonal", df)

Next == WriteHistorySystem \/ WriteHistoryZonal

Spec == Init /\ [][Next]_vars

(***************************************************************************)
(* The store offered frames whose records may lack a ts_utc: a time the    *)
(* normalizers could not parse is kept as NaT (errors="coerce").           *)
(***************************************************************************)
DatedUniverse(ds) ==
    IF ds = "system"
    THEN << Row(0, Str(S_ISONE), 1), Row(1, Str(S_ISONE), 1),
            Row(2, Str(S_ISONE), 1),
            [ts_utc |-> Null, id |-> Str(S_ISONE), load_mw |-> FloatV(1)] >>
    ELSE << Row(0, Str(S_4004), 1), Row(1, Str(S_4005), 1),
            Row(2, Str(S_4004), 1),
            [ts_utc |-> Null, id |-> Str(S_4004), load_mw |-> FloatV(1)] >>

DatedBatches(ds) ==
    {Pick(DatedUniverse(ds), I, 1) :
        I \in {J \in SUBSET (1..Len(DatedUniverse(ds))) : Cardinality(J) \in {1, 2}}}

AppendDated ==
    \E ds \in Datasets : \E df \in DatedBatches(ds) : AppendBatch(ds, df)

NextDates == AppendDated

SpecDates == Init /\ [][NextDates]_vars

(***************************************************************************)
(* The store driven step by step: two writer processes, each inside        *)
(* write_history_system or write_history_zonal, interleave the file        *)
(* operations of _append_idempotent; a process can be killed at any point. *)
(* The store has no lock: callers keep one writer per partition, so a call *)
(* starts only when its partitions are those of no running call.           *)
(***************************************************************************)
StepUniverse(ds) ==
    IF ds = "system"
    THEN << Row(0, Str(S_ISONE), 1), Row(0, Str(S_ISONE), 2), Row(2, Str(S_ISONE), 1) >>
    ELSE << Row(0, Str(S_4004), 1), Row(0, Null, 1), Row(2, Str(S_4004), 1) >>

StepBatches(ds) ==
    {Pick(StepUniverse(ds), I, 1) :
        I \in {J \in SUBSET (1..Len(StepUniverse(ds))) : Cardinality(J) \in {1, 2}}}

Running(w) == wr[w].pc # "idle"

\* the partitions a running call has still to write or is writing
PartitionsOf(w) ==
    IF ~Running(w) THEN {}
    ELSE {HistPath(wr[w].ds, d) :
            d \in wr[w].todo \cup (IF wr[w].pc = "pick" THEN {} ELSE {wr[w].date})}

CurPath(w) == HistPath(wr[w].ds, wr[w].date)

NewFile(w) == FileOf(ToCsv(wr[w].df_all))

\* write_history_*: out = {}, the dates of the batch
Start(w, ds, df) ==
    /\ wr[w].pc = "idle"
    /\ calls < MaxStarts
    /\ \A v \in Writers \ {w}, d \in UtcDatesInDf(df) :
            HistPath(ds, d) \notin PartitionsOf(v)
    /\ calls' = calls + 1
    /\ wr' = [wr EXCEPT ![w] = [WrIdle EXCEPT !.pc = "pick", !.ds = ds, !.df = df,
                                              !.todo = UtcDatesInDf(df)]]
    /\ UNCHANGED <<fs, last, committed, cyc, nz, wh, lp>>

\* for date_str in ...: _append_idempotent up to the merged frame (lines
\* 51-64): one read of the partition file, the rest is local
Load(w, d) ==
    /\ wr[w].pc = "pick"
    /\ d \in wr[w].todo
    /\ LET path   == HistPath(wr[w].ds, d)
           df_old == LoadOld(fs, path)
       IN  wr' = [wr EXCEPT ![w].pc = "merged", ![w].date = d,
                            ![w].todo = wr[w].todo \ {d},
                            ![w].snap = fs[path],
                            ![w].n_old = Len(df_old),
                            ![w].df_all = MergeFrames(df_old, DayRows(wr[w].df, d),
                                                      KeyCols(wr[w].ds))]
    /\ UNCHANGED <<fs, calls, last, committed, cyc, nz, wh, lp>>

\* df_all.to_csv(tmp), under way: the file is created or truncated and holds
\* the first k rows
WriteTmpBegin(w, k) ==
    /\ wr[w].pc = "merged"
    /\ k < Len(wr[w].df_all)
    /\ fs' = [fs EXCEPT ![TmpPath(CurPath(w))] =
                            FileOf(SubSeq(ToCsv(wr[w].df_all), 1, k))]
    /\ wr' = [wr EXCEPT ![w].pc = "writing"]
    /\ UNCHANGED <<calls, last, committed, cyc, nz, wh, lp>>

\* df_all.to_csv(tmp), completed
WriteTmpEnd(w) ==
    /\ wr[w].pc = "writing"
    /\ fs' = [fs EXCEPT ![TmpPath(CurPath(w))] = NewFile(w)]
    /\ wr' = [wr EXCEPT ![w].pc = "written"]
    /\ UNCHANGED <<calls, last, committed, cyc, nz, wh, lp>>

\* tmp.replace(path); committed follows with the result of one complete
\* append to the committed file
Rename(w) ==
    /\ wr[w].pc = "written"
    /\ fs' = Replace(fs, TmpPath(CurPath(w)), CurPath(w))
    /\ wr' = [wr EXCEPT ![w].pc = "renamed"]
    /\ committed' =
         [committed EXCEPT ![CurPath(w)] =
            AppendIdempotent([p \in Paths |-> IF p \in HistPaths THEN committed[p]
                                              ELSE NoFile],
                             DayRows(wr[w].df, wr[w].date), CurPath(w),
                             KeyCols(wr[w].ds))[CurPath(w)]]
    /\ UNCHANGED <<calls, last, cyc, nz, wh, lp>>

\* return after - len(df_old); out[date_str] = added
Return(w) ==
    /\ wr[w].pc = "renamed"
    /\ wr' = [wr EXCEPT ![w].pc = "pick",
                        ![w].out = wr[w].out \cup
                                     {<<wr[w].date, Len(wr[w].df_all) - wr[w].n_old>>}]
    /\ UNCHANGED <<fs, calls, last, committed, cyc, nz, wh, lp>>

\* return out
Finish(w) ==
    /\ wr[w].pc = "pick"
    /\ wr[w].todo = {}
    /\ wr' = [wr EXCEPT ![w] = WrIdle]
    /\ UNCHANGED <<fs, calls, last, committed, cyc, nz, wh, lp>>

\* the process is interrupted inside _append_idempotent: its files stay as
\* they are
Crash(w) ==
    /\ wr[w].pc \in {"merged", "writing", "written", "renamed"}
    /\ wr' = [wr EXCEPT ![w] = [WrIdle EXCEPT !.ds = wr[w].ds, !.date = wr[w].date,
                                              !.crashed_at = wr[w].pc]]
    /\ UNCHANGED <<fs, calls, last, committed, cyc, nz, wh, lp>>

NextSteps ==
    \E w \in Writers :
        \/ \E ds \in Datasets : \E df \in StepBatches(ds) : Start(w, ds, df)
        \/ \E d \in Days : Load(w, d)
        \/ \E k \in 0..1 : WriteTmpBegin(w, k)
        \/ WriteTmpEnd(w)
        \/ Rename(w)
        \/ Return(w)
        \/ Finish(w)
        \/ Crash(w)

SpecSteps == Init /\ [][NextSteps]_vars

(***************************************************************************)
(* Ingestion cycles.  One cycle is one call of                             *)
(*   poll_run_once      poll_isone_to_history.run_once                     *)
(*   pipeline_run_once  pipeline.run_once(only)                            *)
(*   backfill_day       one iteration of backfill_isone_days.backfill_days *)
(*   pipeline_backfill  one iteration of pipeline.run_backfill(days, only) *)
(* An endpoint answers "ok" (a payload the normalizer accepts),            *)
(* "fetch_error" (the request raises) or "shape_error" (normalize_payload  *)
(* raises because it extracts no row).                                     *)
(***************************************************************************)
Kinds == {"poll_run_once", "pipeline_run_once", "backfill_day", "pipeline_backfill"}

Outcomes == {"ok", "fetch_error", "shape_error"}

\* --only: "none" stands for None; only the pipeline.py functions take it
Onlys(kind) ==
    IF kind \in {"pipeline_run_once", "pipeline_backfill"}
    THEN {"none", "system", "zonal"}
    ELSE {"none"}

\* only in (None, "system") / only in (None, "zonal")
Wanted(ds) == cyc.only \in {"none", ds}

\* the loops over days wrap each dataset in its own try/except Exception
CatchesPerDataset(kind) == kind \in {"backfill_day", "pipeline_backfill"}

\* the frame the normalizer returns in this cycle
CycleBatch(ds) == <<RowUniverse(ds)[calls]>>

\* run_once fetches both datasets and then writes both; a backfilled day
\* fetches and writes system, then fetches and writes zonal
AfterFetch(ds) ==
    IF CatchesPerDataset(cyc.kind)
    THEN (IF ds = "system" THEN "write_system" ELSE "write_zonal")
    ELSE (IF ds = "system" THEN "fetch_zonal" ELSE "write_system")

AfterWrite(ds) ==
    IF ds = "zonal" THEN "done"
    ELSE IF CatchesPerDataset(cyc.kind) THEN "fetch_zonal" ELSE "write_zonal"

\* where an exception raised while fetching ds takes the cycle
AfterError(ds) ==
    IF CatchesPerDataset(cyc.kind)
    THEN (IF ds = "system" THEN "fetch_zonal" ELSE "done")
    ELSE "raised"

StartCycle(kind, only, up) ==
    /\ cyc.pc = "idle"
    /\ calls < MaxCalls
    /\ calls' = calls + 1
    /\ cyc' = [CycIdle EXCEPT !.pc = "fetch_system", !.kind = kind, !.only = only,
                              !.up = up]
    /\ UNCHANGED <<fs, last, wr, committed, nz, wh, lp>>

\* fetch and normalize one dataset
Fetch(ds) ==
    /\ cyc.pc = IF ds = "system" THEN "fetch_system" ELSE "fetch_zonal"
    /\ cyc' =
         IF ~Wanted(ds) THEN [cyc EXCEPT !.pc = AfterFetch(ds)]
         ELSE IF cyc.up[ds] = "ok"
              THEN [cyc EXCEPT !.pc = AfterFetch(ds), !.got = cyc.got \cup {ds}]
              ELSE [cyc EXCEPT !.pc = AfterError(ds),
                               !.logged = IF CatchesPerDataset(cyc.kind)
                                          THEN cyc.logged \cup {ds} ELSE cyc.logged]
    /\ UNCHANGED <<fs, calls, last, wr, committed, nz, wh, lp>>

\* write_history_system(df_sys) / write_history_zonal(df_zone), when the
\* frame was fetched
Write(ds) ==
    /\ cyc.pc = IF ds = "system" THEN "write_system" ELSE "write_zonal"
    /\ IF ds \in cyc.got
       THEN /\ fs' = WriteHistory(fs, ds, CycleBatch(ds))
            /\ cyc' = [cyc EXCEPT !.pc = AfterWrite(ds),
                                  !.appended = cyc.appended \cup {ds}]
       ELSE /\ fs' = fs
            /\ cyc' = [cyc EXCEPT !.pc = AfterWrite(ds)]
    /\ UNCHANGED <<calls, last, wr, committed, nz, wh, lp>>

FetchSystem == Fetch("system")
FetchZonal  == Fetch("zonal")
WriteSystem == Write("system")
WriteZonal  == Write("zonal")

\* the cycle has returned or raised; the caller goes on to the next one
EndCycle ==
    /\ cyc.pc \in {"done", "raised"}
    /\ cyc' = CycIdle
    /\ UNCHANGED <<fs, calls, last, wr, committed, nz, wh, lp>>

NextCycle ==
    \/ \E kind \in Kinds : \E only \in Onlys(kind) :
         \E up \in [Datasets -> Outcomes] : StartCycle(kind, only, up)
    \/ FetchSystem
    \/ FetchZonal
    \/ WriteSystem
    \/ WriteZonal
    \/ EndCycle

SpecCycle == Init /\ [][NextCycle]_vars

(***************************************************************************)
(* The polling loops: run_loop of poll_isone_to_history.py and run_loop of *)
(* pipeline.py.  The cycle a loop calls is the cycle above; a signal may   *)
(* arrive between any two steps.                                           *)
(***************************************************************************)
Loops == {"poll", "pipeline"}

\* --only is an argument of pipeline.py alone
LoopOnlys(loop) == IF loop = "pipeline" THEN {"none", "system", "zonal"} ELSE {"none"}

\* poll_mod.run_once(verbose=True) if only is None else run_once(only=only)
CycleKind(loop, only) ==
    IF loop = "poll" \/ only = "none" THEN "poll_run_once" ELSE "pipeline_run_once"

\* a loop that starts a cycle whatever the flag says
Unconditional(loop, stop) == TRUE

\* while True: / while not stop["flag"]:
LoopCondition(loop, stop) == IF loop = "pipeline" THEN ~stop ELSE TRUE

\* try: run_once(...) except Exception: print(...)
CatchesCycleErrors(loop) == loop = "poll"

\* if stop["flag"]: break
BreakIfStop(loop, stop) == loop = "pipeline" /\ stop

Live == lp.pc \notin {"idle", "ended", "crashed"}

StartLoop(loop, only) ==
    /\ lp.loop = "none"
    /\ cyc.pc = "idle"
    /\ lp' = [LpIdle EXCEPT !.loop = loop, !.only = only, !.pc = "test"]
    /\ UNCHANGED <<fs, calls, last, wr, committed, cyc, nz, wh>>

\* the test at the head of the loop
LoopTest ==
    /\ lp.pc = "test"
    /\ IF LoopCondition(lp.loop, lp.stop)
       THEN /\ calls < MaxCalls
            /\ lp' = [lp EXCEPT !.pc = "call", !.seen = lp.stop]
       ELSE lp' = [lp EXCEPT !.pc = "ended", !.seen = lp.stop]
    /\ UNCHANGED <<fs, calls, last, wr, committed, cyc, nz, wh>>

\* the call of run_once; up is what the endpoints answer in this cycle
LoopCall(up) ==
    /\ lp.pc = "call"
    /\ calls' = calls + 1
    /\ cyc' = [CycIdle EXCEPT !.pc = "fetch_system",
                              !.kind = CycleKind(lp.loop, lp.only),
                              !.only = lp.only, !.up = up]
    /\ lp' = [lp EXCEPT !.pc = "cycle",
                        !.late_cycles = IF lp.stop THEN @ + 1 ELSE @]
    /\ UNCHANGED <<fs, last, wr, committed, nz, wh>>

\* run_once returns or raises
LoopReturn ==
    /\ lp.pc = "cycle"
    /\ cyc.pc \in {"done", "raised"}
    /\ cyc' = CycIdle
    /\ lp' = IF cyc.pc = "raised"
             THEN IF CatchesCycleErrors(lp.loop)
                  THEN [lp EXCEPT !.pc = "sleep_call", !.raised = @ + 1]
                  ELSE [lp EXCEPT !.pc = "crashed", !.raised = @ + 1]
             ELSE [lp EXCEPT !.pc = "break_test"]
    /\ UNCHANGED <<fs, calls, last, wr, committed, nz, wh>>

LoopBreakTest ==
    /\ lp.pc = "break_test"
    /\ lp' = [lp EXCEPT !.pc = IF BreakIfStop(lp.loop, lp.stop) THEN "ended"
                               ELSE "sleep_call"]
    /\ UNCHANGED <<fs, calls, last, wr, committed, cyc, nz, wh>>

\* _sleep_until_next_interval(interval_sec) is called
LoopSleep ==
    /\ lp.pc = "sleep_call"
    /\ lp' = [lp EXCEPT !.pc = "sleeping",
                        !.late_sleeps = IF lp.stop THEN @ + 1 ELSE @]
    /\ UNCHANGED <<fs, calls, last, wr, committed, cyc, nz, wh>>

\* poll run_loop when the cycle took the whole interval: no sleep
LoopSkipSleep ==
    /\ lp.pc = "sleep_call"
    /\ lp.loop = "poll"
    /\ lp' = [lp EXCEPT !.pc = "test"]
    /\ UNCHANGED <<fs, calls, last, wr, committed, cyc, nz, wh>>

\* time.sleep returns; a handled signal does not shorten it
LoopWake ==
    /\ lp.pc = "sleeping"
    /\ lp' = [lp EXCEPT !.pc = "test"]
    /\ UNCHANGED <<fs, calls, last, wr, committed, cyc, nz, wh>>

\* SIGINT or SIGTERM under pipeline.run_loop: _sig_handler sets the flag
Signal ==
    /\ lp.loop = "pipeline"
    /\ Live
    /\ ~lp.stop
    /\ lp' = [lp EXCEPT !.stop = TRUE]
    /\ UNCHANGED <<fs, calls, last, wr, committed, cyc, nz, wh>>

\* SIGINT under poll run_loop: KeyboardInterrupt leaves the loop
Interrupt ==
    /\ lp.loop = "poll"
    /\ Live
    /\ lp' = [lp EXCEPT !.pc = "ended"]
    /\ cyc' = CycIdle
    /\ UNCHANGED <<fs, calls, last, wr, committed, nz, wh>>

InCycle == lp.pc = "cycle"

LoopCallAny == \E up \in [Datasets -> Outcomes] : LoopCall(up)

\* the steps of the loop itself
LoopProgress ==
    \/ LoopTest
    \/ LoopCallAny
    \/ LoopReturn
    \/ LoopBreakTest
    \/ LoopSleep
    \/ LoopWake

NextLoop ==
    \/ \E loop \in Loops : \E only \in LoopOnlys(loop) : StartLoop(loop, only)
    \/ LoopProgress
    \/ InCycle /\ FetchSystem
    \/ InCycle /\ FetchZonal
    \/ InCycle /\ WriteSystem
    \/ InCycle /\ WriteZonal
    \/ LoopSkipSleep
    \/ Signal
    \/ Interrupt

SpecLoop == Init /\ [][NextLoop]_vars

\* the interpreter goes on and a sleep ends; whether the running cycle
\* returns is left open
SpecLoopFair == SpecLoop /\ WF_vars(LoopProgress)

(***************************************************************************)
(* The warehouse: build_parquet_from_history and create_duckdb_views of    *)
(* warehouse_build.py.  A segment is the Parquet file of one (dataset,     *)
(* date); a view is the query text stored in the DuckDB file.              *)
(***************************************************************************)
\* _csvs(pattern): the files of data/history whose name matches
\* "<prefix>_*.csv", sorted
HistGlob(f, ds) ==
    {p \in Paths : f[p].exists /\ InHistory(p)
                   /\ GlobMatch(FileName(p), HistPattern(ds))}

RECURSIVE SortedPaths(_)
SortedPaths(ps) ==
    IF ps = {} THEN <<>>
    ELSE LET p == CHOOSE q \in ps : \A r \in ps : q[2] <= r[2]
         IN  <<p>> \o SortedPaths(ps \ {p})

Csvs(f, ds) == SortedPaths(HistGlob(f, ds))

\* p.stem.split("_")[-1]
DateFromFilename(p) == p[2]

\* Series.astype(str) of one value
AsTypeStr(v) ==
    IF v.ty = "null" THEN S_nan ELSE CellText(v)

\* pd.to_numeric(errors="coerce") of one value
ToNumeric(v) == IF IsNum(v) THEN v ELSE Null

\* _coerce_system_types / _coerce_zonal_types: location is astype(str),
\* zone_id is astype(str) where it is not missing
CoerceTypes(ds, df) ==
    [i \in 1..Len(df) |->
        [iso |-> Str(S_ISONE),
         ts_utc |-> df[i].ts_utc,
         id |-> IF ds = "zonal" /\ df[i].id.ty = "null" THEN Null
                ELSE Str(AsTypeStr(df[i].id)),
         load_mw |-> ToNumeric(df[i].load_mw)]]

\* what df.to_parquet adds to a file that is there: the rows after its rows
AppendParquet(f, df, ds, date_str) ==
    [f EXCEPT ![SegPath(ds, date_str)] =
        FileOf(f[SegPath(ds, date_str)].rows \o df)]

\* _write_parquet_partition: to_parquet(tmp), then tmp.replace(out_file)
WriteParquetPartition(f, df, ds, date_str) ==
    LET out_file == SegPath(ds, date_str)
        tmp == SegTmp(out_file)
    IN  Replace([f EXCEPT ![tmp] = FileOf(df)], tmp, out_file)

\* the frame build_parquet_from_history writes for the history file p
SegmentFrame(f, ds, p) == CoerceTypes(ds, ReadCsv(f[p].rows))

\* the loop over the history files of one dataset; hist is the store the
\* glob was taken in
RECURSIVE BuildAll(_, _, _)
BuildAll(f, ds, csvs) ==
    IF csvs = <<>> THEN f
    ELSE BuildAll(WriteParquetPartition(f, SegmentFrame(f, ds, Head(csvs)), ds,
                                        DateFromFilename(Head(csvs))),
                  ds, Tail(csvs))

RECURSIVE RowsWritten(_, _, _)
RowsWritten(f, ds, csvs) ==
    IF csvs = <<>> THEN 0
    ELSE Len(SegmentFrame(f, ds, Head(csvs))) + RowsWritten(f, ds, Tail(csvs))

\* the files after build_parquet_from_history()
BuildParquetFromHistory(f) ==
    BuildAll(BuildAll(f, "system", Csvs(f, "system")), "zonal", Csvs(f, "zonal"))

\* the mapping build_parquet_from_history() returns
Written(f) == [ds \in Datasets |-> RowsWritten(f, ds, Csvs(f, ds))]

\* the files "data/warehouse/<subdir>/date=*/part-*.parquet" matches
SegGlob(f, ds) ==
    {p \in Paths : f[p].exists /\ p[1] = WhSubdir(ds)
                   /\ GlobMatch(FileName(p), SegPattern)}

RECURSIVE ReadAll(_, _)
ReadAll(f, ps) ==
    IF ps = <<>> THEN <<>> ELSE f[Head(ps)].rows \o ReadAll(f, Tail(ps))

\* read_parquet(glob): the rows of every matching file
ReadParquet(f, ds) == ReadAll(f, SortedPaths(SegGlob(f, ds)))

\* a table filled when it is created
Materialized(f, ds) ==
    [defined |-> TRUE, kind |-> "table", rows |-> ReadParquet(f, ds)]

\* CREATE OR REPLACE VIEW <ds>_load AS SELECT * FROM read_parquet(glob): the
\* database keeps the query, not its rows
ViewDef(f, ds) == [defined |-> TRUE, kind |-> "view", rows |-> <<>>]

\* SELECT * FROM <ds>_load, asked with the files f on disk
Query(view, f, ds) ==
    IF view.kind = "view" THEN ReadParquet(f, ds) ELSE view.rows

\* read_parquet finds no file for the glob: DuckDB refuses the statement
NoSegments(f, ds) == SegGlob(f, ds) = {}

\* single-row batches for the store under the warehouse
WhBatches(ds) == {<<RowUniverse(ds)[i]>> : i \in 1..Len(RowUniverse(ds))}

WhAppend == \E ds \in Datasets : \E df \in WhBatches(ds) : AppendBatch(ds, df)

\* build_parquet_from_history(); builds counts the rebuilds up to two, hist
\* and written are the store it read and the mapping it returned, phist,
\* pwritten and pfiles those of the rebuild before it and the files it left;
\* vfiles are the files on disk when the views were last defined
Rebuild ==
    /\ fs' = BuildParquetFromHistory(fs)
    /\ wh' = [wh EXCEPT !.builds = IF wh.builds < 2 THEN wh.builds + 1 ELSE 2,
                        !.written = Written(fs),
                        !.hist = fs,
                        !.pwritten = wh.written,
                        !.phist = wh.hist,
                        !.pfiles = fs]
    /\ UNCHANGED <<calls, last, wr, committed, cyc, nz, lp>>

\* create_duckdb_views(): the system view, then the zonal view; a statement
\* DuckDB refuses raises and ends the function
CreateDuckdbViews ==
    /\ ~NoSegments(fs, "system")
    /\ wh' = [wh EXCEPT !.views =
                            [ds \in Datasets |->
                                IF ds = "zonal" /\ NoSegments(fs, "zonal")
                                THEN wh.views[ds]
                                ELSE ViewDef(fs, ds)],
                        !.vfiles = fs]
    /\ UNCHANGED <<fs, calls, last, wr, committed, cyc, nz, lp>>

NextWh == WhAppend \/ Rebuild \/ CreateDuckdbViews

SpecWh == Init /\ [][NextWh]_vars

(***************************************************************************)
(* Appends and rebuilds that are killed between the writing of a temporary *)
(* file and its rename.                                                    *)
(***************************************************************************)
\* the frames offered to the store under interruptions
TmpBatches(ds) ==
    IF ds = "system"
    THEN { <<Row(0, Str(S_ISONE), 1)>>, <<Row(0, Str(S_NE), 2)>> }
    ELSE { <<Row(0, Str(S_4005), 1)>> }

\* the temporary files of one kind on disk
Leftover(f, sfx) == {p \in Paths : f[p].exists /\ p[3] = sfx}

TmpAppend == \E ds \in Datasets : \E df \in TmpBatches(ds) : AppendBatch(ds, df)

\* write_history_*(df) killed inside _append_idempotent of date d, after
\* df_all.to_csv(tmp) and before tmp.replace(path); one writer is killed
\* while no temporary file of an earlier one is on disk
InterruptedAppend(ds, df, d) ==
    /\ calls < MaxCalls
    /\ Leftover(fs, ".csv.tmp") = {}
    /\ calls' = calls + 1
    /\ d \in UtcDatesInDf(df)
    /\ LET path   == HistPath(ds, d)
           df_all == MergeFrames(LoadOld(fs, path), DayRows(df, d), KeyCols(ds))
       IN  fs' = [fs EXCEPT ![TmpPath(path)] = FileOf(ToCsv(df_all))]
    /\ UNCHANGED <<last, wr, committed, cyc, nz, wh, lp>>

\* the history files build_parquet_from_history goes through, in its order
RebuildJobs(f) ==
    [i \in 1..Len(Csvs(f, "system")) |-> <<"system", Csvs(f, "system")[i]>>]
    \o [i \in 1..Len(Csvs(f, "zonal")) |-> <<"zonal", Csvs(f, "zonal")[i]>>]

RECURSIVE BuildFirst(_, _, _)
BuildFirst(f, jobs, n) ==
    IF n = 0 THEN f
    ELSE LET g == BuildFirst(f, jobs, n - 1)
         IN  WriteParquetPartition(g, SegmentFrame(g, jobs[n][1], jobs[n][2]),
                                   jobs[n][1], DateFromFilename(jobs[n][2]))

\* build_parquet_from_history() killed inside _write_parquet_partition of
\* its n-th file, after df.to_parquet(tmp) and before
\* tmp.replace(out_file); one rebuild is killed while no temporary file of
\* an earlier one is on disk
InterruptedRebuild(n) ==
    /\ n \in 1..Len(RebuildJobs(fs))
    /\ Leftover(fs, ".parquet.tmp") = {}
    /\ LET jobs == RebuildJobs(fs)
           g    == BuildFirst(fs, jobs, n - 1)
           df   == SegmentFrame(g, jobs[n][1], jobs[n][2])
           tmp  == SegTmp(SegPath(jobs[n][1], DateFromFilename(jobs[n][2])))
       IN  fs' = [g EXCEPT ![tmp] = FileOf(df)]
    /\ UNCHANGED <<calls, last, wr, committed, cyc, nz, wh, lp>>

AppendKilled ==
    \E ds \in Datasets : \E df \in TmpBatches(ds) : \E d \in Days :
        InterruptedAppend(ds, df, d)

RebuildKilled == \E n \in 1..Cardinality(HistPaths) : InterruptedRebuild(n)

\* the rebuilds that return are counted up to MaxBuilds, and the views are
\* created once
RebuildOnce == wh.builds < MaxBuilds /\ Rebuild

CreateViewsOnce == (\A ds \in Datasets : ~wh.views[ds].defined) /\ CreateDuckdbViews

NextTmp ==
    \/ TmpAppend
    \/ AppendKilled
    \/ RebuildOnce
    \/ RebuildKilled
    \/ CreateViewsOnce

SpecTmp == Init /\ [][NextTmp]_vars

(***************************************************************************)
(* The dashboard: latest_system, latest_zonal and parity_card of           *)
(* app_streamlit.py.  Loads are whole numbers of MW.                       *)
(***************************************************************************)
\* SELECT MAX(ts_utc): the greatest ts_utc that is not NULL, NULL if none
MaxTs(rows) ==
    LET dated == {i \in 1..Len(rows) : rows[i].ts_utc.ty # "null"}
    IN  IF dated = {} THEN Null
        ELSE rows[CHOOSE i \in dated :
                    \A j \in dated : rows[j].ts_utc.n <= rows[i].ts_utc.n].ts_utc

RECURSIVE WhereTs(_, _)
WhereTs(rows, ts) ==
    IF rows = <<>> THEN <<>>
    ELSE IF ts.ty # "null" /\ Head(rows).ts_utc = ts
         THEN <<Head(rows)>> \o WhereTs(Tail(rows), ts)
         ELSE WhereTs(Tail(rows), ts)

\* ... WHERE ts_utc = (SELECT MAX(ts_utc) FROM <ds>_load)
Latest(view, f, ds) ==
    WhereTs(Query(view, f, ds), MaxTs(Query(view, f, ds)))

LatestSystem(views, f) == Latest(views["system"], f, "system")

LatestZonal(views, f) == Latest(views["zonal"], f, "zonal")

\* df["load_mw"].sum(): missing values are skipped
RECURSIVE SumLoads(_)
SumLoads(df) ==
    IF df = <<>> THEN 0
    ELSE (IF IsNum(Head(df).load_mw) THEN Head(df).load_mw.n ELSE 0)
         + SumLoads(Tail(df))

Abs(n) == IF n < 0 THEN 0 - n ELSE n

\* a / b rounded to the nearest whole number, a >= 0 and b > 0
RoundDiv(a, b) == (2 * a + b) \div (2 * b)

SignOf(n) == IF n < 0 THEN <<"-">> ELSE <<"+">>

\* f"{delta:+.1f}" of a whole number
FmtDelta(delta) == SignOf(delta) \o IntToStr(Abs(delta)) \o <<".", "0">>

\* f"{pct:+.2f}" of pct = (delta / system) * 100, from its hundredths
FmtPct(delta, system) ==
    LET h == IF system = 0 THEN 0
             ELSE RoundDiv(Abs(delta) * 10000, Abs(system))
        neg == system # 0 /\ ((delta < 0) # (system < 0)) /\ delta # 0
    IN  (IF neg THEN <<"-">> ELSE <<"+">>)
        \o IntToStr(h \div 100) \o <<".">> \o Digits2(h % 100)

S_MW == <<" ", "M", "W", " ", "(">>
S_PctClose == <<"%", ")">>
S_NanCard == <<"+", "n", "a", "n", " ", "M", "W", " ", "(", "+", "n", "a", "n",
               "%", ")">>

\* f"{delta:+.1f} MW ({pct:+.2f}%)"
FmtCard(delta, system) ==
    FmtDelta(delta) \o S_MW \o FmtPct(delta, system) \o S_PctClose

\* parity_card(sys_df, zon_df)
ParityCard(sys_df, zon_df) ==
    IF sys_df = <<>> \/ zon_df = <<>>
    THEN [NoCard EXCEPT !.shown = TRUE, !.na = TRUE]
    ELSE IF ~IsNum(sys_df[1].load_mw)
    THEN [NoCard EXCEPT !.shown = TRUE, !.nan = TRUE,
                        !.zones_sum = SumLoads(zon_df), !.text = S_NanCard]
    ELSE LET system == sys_df[1].load_mw.n
             zones_sum == SumLoads(zon_df)
         IN  [shown |-> TRUE, na |-> FALSE, nan |-> FALSE, system |-> system,
              zones_sum |-> zones_sum,
              text |-> FmtCard(zones_sum - system, system)]

\* the frames offered to the store under the dashboard: system 15000 at
\* tick 1, zones summing to 15050 at tick 1, and a later interval of each
ParityBatches(ds) ==
    IF ds = "system"
    THEN { <<Row(1, Str(S_ISONE), 15000)>>, <<Row(2, Str(S_ISONE), 14000)>>,
           <<Row(0, Str(S_ISONE), 15100)>> }
    ELSE { <<Row(1, Str(S_4004), 7525), Row(1, Str(S_4005), 7525)>>,
           <<Row(1, Str(S_4004), 7525)>>,
           <<Row(2, Str(S_4004), 7000), Row(2, Str(S_4005), 6958)>>,
           <<Row(0, Str(S_4004), 15100)>> }

ParityAppend ==
    \E ds \in Datasets : \E df \in ParityBatches(ds) : AppendBatch(ds, df)

\* the dashboard script down to the parity card: a query on a view that is
\* not there raises and the script stops
Dashboard ==
    /\ \A ds \in Datasets : wh.views[ds].defined
    /\ wh' = [wh EXCEPT !.card = ParityCard(LatestSystem(wh.views, fs),
                                            LatestZonal(wh.views, fs)),
                        !.cfiles = fs]
    /\ UNCHANGED <<fs, calls, last, wr, committed, cyc, nz, lp>>

NextParity == ParityAppend \/ Rebuild \/ CreateDuckdbViews \/ Dashboard

SpecParity == Init /\ [][NextParity]_vars

(***************************************************************************)
(* The zonal normalizer: normalize_payload of                              *)
(* fetch_isone_fivemin_zonal_load.py.                                      *)
(***************************************************************************)
TIME_KEYS   == <<"interval_begin_date", "BeginDate", "BeginDateTime",
                 "BeginDateUTC", "BeginDatetime", "StartTime">>
ZONEID_KEYS == <<"load_zone_id", "LoadZone", "LoadZoneId", "LoadZoneID",
                 "ZoneID", "ZoneId">>
ZONENM_KEYS == <<"load_zone_name", "Zone", "LocName", "Location",
                 "LoadZoneName">>
VALUE_KEYS  == <<"estimated_load_mw", "LoadMw", "LoadMW", "Load", "Value",
                 "estimated_zonal_load_mw">>

\* the value of the first key of keys that d holds with a value other than
\* None and "", else None
RECURSIVE FirstKey(_, _)
FirstKey(d, keys) ==
    IF keys = <<>> THEN JNull
    ELSE IF HasKey(d, Head(keys)) /\ NotBlank(Get(d, Head(keys)))
         THEN Get(d, Head(keys))
         ELSE FirstKey(d, Tail(keys))

\* str(z): a str is itself, an integer its digits; of a dict or a list the
\* model keeps the braces and writes "*" for the text between them
PyStr(z) ==
    IF z.ty = "str" THEN z.s
    ELSE IF z.ty = "num" THEN IntToStr(z.n)
    ELSE IF z.ty = "map" THEN <<"{", "*", "}">>
    ELSE <<"[", "*", "]">>

CleanZoneName(z) ==
    LET s == Strip(PyStr(z))
    IN  IF StartsWith(s, S_DotZDot) THEN SubSeq(s, 4, Len(s)) ELSE s

ZONE_NAME_BY_ID ==
    << <<S_4001, S_ME>>, <<S_4002, S_NH>>, <<S_4003, S_VT>>, <<S_4004, S_CT>>,
       <<S_4005, S_RI>>, <<S_4006, S_SEMA>>, <<S_4007, S_WCMA>>,
       <<S_4008, S_NEMA_Boston>>, <<S_4000, S_HUB>> >>

\* the table keyed by the names as they are written
RevByNameAsWritten ==
    [i \in 1..Len(ZONE_NAME_BY_ID) |->
        <<ZONE_NAME_BY_ID[i][2], ZONE_NAME_BY_ID[i][1]>>]

REV_BY_NAME ==
    [i \in 1..Len(ZONE_NAME_BY_ID) |->
        <<Upper(ZONE_NAME_BY_ID[i][2]), ZONE_NAME_BY_ID[i][1]>>]

\* dict.get(k): the value of the last entry written under k, else None
DictGet(tbl, k) ==
    LET hits == {i \in 1..Len(tbl) : tbl[i][1] = k}
    IN  IF hits = {} THEN Null
        ELSE Str(tbl[CHOOSE i \in hits : \A j \in hits : j <= i][2])

\* the times the model feeds: wall is the clock reading in five-minute ticks
\* after 2024-01-01T00:00, off the UTC offset in ticks
TimeTable ==
    << [text |-> T_NAIVE, wall |-> 1, aware |-> FALSE, off |-> 0, tz |-> <<>>],
       [text |-> T_ZULU, wall |-> 2, aware |-> TRUE, off |-> 0, tz |-> TZ_UTC],
       [text |-> T_EST, wall |-> 2, aware |-> TRUE, off |-> 0 - 60,
        tz |-> TZ_EST] >>

NaT == [text |-> <<>>, wall |-> 0, aware |-> FALSE, off |-> 0, tz |-> <<>>]

IsNaT(ts) == ts.text = <<>>

\* pd.to_datetime(t, utc=False, errors="coerce") of a string
ToDatetime(t) ==
    IF t.ty = "str" /\ \E i \in 1..Len(TimeTable) : TimeTable[i].text = t.s
    THEN TimeTable[CHOOSE i \in 1..Len(TimeTable) : TimeTable[i].text = t.s]
    ELSE NaT

\* the ts_local cell: the clock reading with its offset
TsLocal(ts) ==
    IF IsNaT(ts) THEN Null ELSE [ty |-> "ts", s |-> ts.tz, n |-> ts.wall]

\* tz_convert("UTC") of an aware time, tz_localize("UTC") of a naive one
TsUtc(ts) ==
    IF IsNaT(ts) THEN Null
    ELSE IF ts.aware THEN TsV(ts.wall - ts.off)
    ELSE TsV(ts.wall)

\* zone id -> string
ZidStr(zid) ==
    IF zid.ty = "num" THEN Str(IntToStr(zid.n))
    ELSE IF zid.ty = "str" /\ Strip(zid.s) # <<>>
         THEN IF IsDigit(Strip(zid.s)) THEN Str(Strip(zid.s)) ELSE Null
         ELSE Null

\* float(val), 0.0 when it raises
FloatOrZero(val) == IF val.ty = "num" THEN FloatV(val.n) ELSE FloatV(0)

\* float(val), None when it raises TypeError or ValueError
ToFloat(val) ==
    IF val.ty = "num" THEN FloatV(val.n)
    ELSE IF val.ty = "str" /\ IsDigit(Strip(val.s))
         THEN FloatV(StrToInt(Strip(val.s)))
         ELSE Null

\* the record one map node gives
NodeRecord(t, val, zid, znm) ==
    LET ts_local == ToDatetime(t)
        zid_0 == ZidStr(zid)
        znm_0 == IF znm.ty # "null" THEN Str(CleanZoneName(znm)) ELSE Null
        zid_s == IF zid_0.ty = "null" /\ znm_0.ty = "str"
                 THEN DictGet(REV_BY_NAME, Upper(znm_0.s))
                 ELSE zid_0
        znm_s == IF znm_0.ty = "null" /\ zid_s.ty # "null"
                 THEN DictGet(ZONE_NAME_BY_ID, zid_s.s)
                 ELSE znm_0
    IN  [ts_utc |-> TsUtc(ts_local), ts_local |-> TsLocal(ts_local),
         zone_id |-> zid_s, zone_name |-> znm_s, load_mw |-> ToFloat(val)]

\* the records a map node appends for itself
NodeRows(obj) ==
    LET t   == FirstKey(obj, TIME_KEYS)
        val == FirstKey(obj, VALUE_KEYS)
        zid == FirstKey(obj, ZONEID_KEYS)
        znm == FirstKey(obj, ZONENM_KEYS)
    IN  IF t.ty # "null" /\ val.ty # "null"
           /\ (zid.ty # "null" \/ znm.ty # "null")
        THEN <<NodeRecord(t, val, zid, znm)>>
        ELSE <<>>

RECURSIVE Walk(_)
RECURSIVE WalkAll(_)

\* the records walk(obj) appends, in the order it appends them
Walk(obj) ==
    IF obj.ty = "map"
    THEN NodeRows(obj) \o WalkAll([i \in 1..Len(obj.es) |-> obj.es[i][2]])
    ELSE IF obj.ty = "list" THEN WalkAll(obj.xs)
    ELSE <<>>

WalkAll(xs) == IF xs = <<>> THEN <<>> ELSE Walk(Head(xs)) \o WalkAll(Tail(xs))

\* df["zone_name"].fillna(df["zone_id"])
FillName(df) ==
    [i \in 1..Len(df) |->
        IF df[i].zone_name.ty = "null"
        THEN [df[i] EXCEPT !.zone_name = df[i].zone_id]
        ELSE df[i]]

\* the characters of the model in code point order
Chars ==
    <<" ", "*", "+", "-", ".", "/">> \o DigitChars \o <<":">> \o UpperChars
    \o <<"[", "]">> \o LowerChars \o <<"{", "}">>

CharCode(c) == CHOOSE i \in 1..Len(Chars) : Chars[i] = c

RECURSIVE TextLess(_, _)
TextLess(a, b) ==
    IF b = <<>> THEN FALSE
    ELSE IF a = <<>> THEN TRUE
    ELSE IF a[1] = b[1] THEN TextLess(Tail(a), Tail(b))
    ELSE CharCode(a[1]) < CharCode(b[1])

\* the order of one sort column, missing values last
ColLess(a, b) ==
    IF a.ty = "null" THEN FALSE
    ELSE IF b.ty = "null" THEN TRUE
    ELSE IF a.ty = "ts" THEN a.n < b.n
    ELSE TextLess(a.s, b.s)

ColSame(a, b) == ~ColLess(a, b) /\ ~ColLess(b, a)

RowLess(r1, r2) ==
    \/ ColLess(r1.ts_utc, r2.ts_utc)
    \/ /\ ColSame(r1.ts_utc, r2.ts_utc)
       /\ \/ ColLess(r1.zone_id, r2.zone_id)
          \/ /\ ColSame(r1.zone_id, r2.zone_id)
             /\ ColLess(r1.zone_name, r2.zone_name)

InsertRow(sorted, r) ==
    LET after == {j \in 1..Len(sorted) : RowLess(r, sorted[j])}
        k == IF after = {} THEN Len(sorted) + 1
             ELSE CHOOSE j \in after : \A i \in after : j <= i
    IN  SubSeq(sorted, 1, k - 1) \o <<r>> \o SubSeq(sorted, k, Len(sorted))

\* df.sort_values(["ts_utc", "zone_id", "zone_name"])
RECURSIVE SortZonal(_)
SortZonal(df) ==
    IF df = <<>> THEN <<>>
    ELSE InsertRow(SortZonal(SubSeq(df, 1, Len(df) - 1)), df[Len(df)])

\* the final tidy
Tidy(df) == SortZonal(FillName(df))

(***************************************************************************)
(* The system normalizer: normalize_payload of fetch_isone_fivemin_load.py *)
(***************************************************************************)
SYS_TIME_KEYS  == <<"BeginDate", "BeginDateTime", "BeginDateUTC", "BeginDatetime">>
SYS_VALUE_KEYS == <<"LoadMw", "LoadMW", "Load", "Value">>
LOC_KEYS       == <<"Location", "Loc", "Zone", "LocName">>
TEXT_KEYS      == <<"#text", "$", "text", "_text", "_value", "value", "name",
                    "LocName", "LocShortName">>
SYSTEM_NAMES   == {S_ISONE, S_NEPOOL, S_NEWENGLAND, S_NE}

\* bool(v) of a JSON value
Truthy(v) ==
    IF v.ty = "null" THEN FALSE
    ELSE IF v.ty = "str" THEN v.s # <<>>
    ELSE IF v.ty = "num" THEN v.n # 0
    ELSE IF v.ty = "map" THEN v.es # <<>>
    ELSE v.xs # <<>>

\* the value of the first key of keys that d holds with a truthy value
RECURSIVE FirstTruthy(_, _)
FirstTruthy(d, keys) ==
    IF keys = <<>> THEN JNull
    ELSE IF HasKey(d, Head(keys)) /\ Truthy(Get(d, Head(keys)))
         THEN Get(d, Head(keys))
         ELSE FirstTruthy(d, Tail(keys))

ExtractTime(d) == FirstTruthy(d, SYS_TIME_KEYS)

ExtractVal(d) == FirstKey(d, SYS_VALUE_KEYS)

\* isinstance(v, str) and v.strip()
TextMember(v) == v.ty = "str" /\ Strip(v.s) # <<>>

\* the text a dict gives: its first text-holder key with a non-blank
\* string, else its first non-blank string member, else str(v)
DictText(v, keys) ==
    LET held == {i \in 1..Len(keys) :
                    HasKey(v, keys[i]) /\ TextMember(Get(v, keys[i]))}
        any  == {i \in 1..Len(v.es) : TextMember(v.es[i][2])}
    IN  IF held # {}
        THEN Strip(Get(v, keys[CHOOSE i \in held : \A j \in held : i <= j]).s)
        ELSE IF any # {}
             THEN Strip(v.es[CHOOSE i \in any : \A j \in any : i <= j][2].s)
             ELSE PyStr(v)

ExtractLoc(d) ==
    LET v == FirstTruthy(d, LOC_KEYS)
    IN  IF v.ty = "null" THEN S_ISONE
        ELSE IF v.ty = "map" THEN DictText(v, TEXT_KEYS)
        ELSE PyStr(v)

SysRecord(tval, lval, loc, is_system) ==
    LET ts_local == ToDatetime(tval)
    IN  [ts_utc |-> TsUtc(ts_local), ts_local |-> TsLocal(ts_local),
         location |-> Str(loc), load_mw |-> ToFloat(lval),
         is_system |-> is_system]

\* the fast path: payload["FiveMinSystemLoad"] is a list
IsFastShape(payload) ==
    /\ payload.ty = "map"
    /\ HasKey(payload, "FiveMinSystemLoad")
    /\ Get(payload, "FiveMinSystemLoad").ty = "list"

FastRow(r) ==
    IF r.ty # "map" THEN <<>>
    ELSE IF ExtractTime(r).ty = "null" \/ ExtractVal(r).ty = "null" THEN <<>>
    ELSE <<SysRecord(ExtractTime(r), ExtractVal(r), S_ISONE, TRUE)>>

RECURSIVE FastRows(_)
FastRows(xs) == IF xs = <<>> THEN <<>> ELSE FastRow(Head(xs)) \o FastRows(Tail(xs))

\* the record a map node appends for itself in the fallback walk
SysNodeRows(obj) ==
    LET tval == ExtractTime(obj)
        lval == ExtractVal(obj)
        loc  == IF ExtractLoc(obj) = <<>> THEN S_ISONE ELSE ExtractLoc(obj)
    IN  IF tval.ty # "null" /\ lval.ty # "null"
        THEN <<SysRecord(tval, lval, loc, Upper(loc) \in SYSTEM_NAMES)>>
        ELSE <<>>

RECURSIVE SysWalk(_)
RECURSIVE SysWalkAll(_)

SysWalk(obj) ==
    IF obj.ty = "map"
    THEN SysNodeRows(obj) \o SysWalkAll([i \in 1..Len(obj.es) |-> obj.es[i][2]])
    ELSE IF obj.ty = "list" THEN SysWalkAll(obj.xs)
    ELSE <<>>

SysWalkAll(xs) ==
    IF xs = <<>> THEN <<>> ELSE SysWalk(Head(xs)) \o SysWalkAll(Tail(xs))

\* rows after the fast path and, if it gave none, the fallback walk
SystemRows(payload) ==
    LET fast == IF IsFastShape(payload)
                THEN FastRows(Get(payload, "FiveMinSystemLoad").xs)
                ELSE <<>>
    IN  IF fast = <<>> THEN SysWalk(payload) ELSE fast

SysRowLess(r1, r2) ==
    \/ ColLess(r1.ts_utc, r2.ts_utc)
    \/ ColSame(r1.ts_utc, r2.ts_utc) /\ ColLess(r1.location, r2.location)

InsertSysRow(sorted, r) ==
    LET after == {j \in 1..Len(sorted) : SysRowLess(r, sorted[j])}
        k == IF after = {} THEN Len(sorted) + 1
             ELSE CHOOSE j \in after : \A i \in after : j <= i
    IN  SubSeq(sorted, 1, k - 1) \o <<r>> \o SubSeq(sorted, k, Len(sorted))

\* df.sort_values(["ts_utc", "location"])
RECURSIVE SortSystem(_)
SortSystem(df) ==
    IF df = <<>> THEN <<>>
    ELSE InsertSysRow(SortSystem(SubSeq(df, 1, Len(df) - 1)), df[Len(df)])

(***************************************************************************)
(* The payloads given to the normalizer.  A node is a map with a time, a   *)
(* value, a zone id and a zone name, each of them possibly left out.       *)
(***************************************************************************)
Absent == [ty |-> "absent"]

Entry(k, v) == IF v.ty = "absent" THEN <<>> ELSE << <<k, v>> >>

Node(tk, t, val, ik, zid, nk, znm) ==
    JMap(Entry(tk, t) \o Entry("estimated_load_mw", val) \o Entry(ik, zid)
         \o Entry(nk, znm))

TableIds == {ZONE_NAME_BY_ID[i][1] : i \in 1..Len(ZONE_NAME_BY_ID)}

TableNames == {ZONE_NAME_BY_ID[i][2] : i \in 1..Len(ZONE_NAME_BY_ID)}

TimeInputs == {JStr(T_NAIVE), JStr(T_ZULU), JStr(T_EST), Absent}

ValueInputs == {JNum(15000), JStr(S_bad), JList(<<>>), Absent}

ZidInputs ==
    {JStr(s) : s \in TableIds}
    \cup {JStr(S_4004_padded), JStr(S_ABC), JStr(<<>>), JNum(4004), JNull,
          JMap(<< <<"text", JStr(S_4004)>> >>), Absent}

ZnmInputs ==
    {JStr(s) : s \in TableNames}
    \cup {JStr(S_sema), JStr(S_Z_CT), JStr(S_FOO), JStr(S_DotZDot),
          JMap(<< <<"text", JStr(S_CT)>> >>), Absent}

Nodes ==
    {Node("interval_begin_date", t, val, "load_zone_id", zid,
          "load_zone_name", znm) :
        t \in TimeInputs, val \in ValueInputs, zid \in ZidInputs,
        znm \in ZnmInputs}
    \cup {Node(tk, JStr(T_ZULU), JNum(15000), ik, JStr(S_4006), nk, Absent) :
            tk \in {"BeginDate", "StartTime"}, ik \in {"LoadZone", "ZoneId"},
            nk \in {"Zone"}}
    \cup {Node(tk, JStr(T_ZULU), JNum(15000), ik, Absent, nk, JStr(S_SEMA)) :
            tk \in {"BeginDate"}, ik \in {"ZoneId"},
            nk \in {"Zone", "Location", "LoadZoneName"}}

\* nodes of a batch of several records
BatchNodes ==
    {Node("interval_begin_date", t, val, "load_zone_id", zid,
          "load_zone_name", Absent) :
        t \in {JStr(T_NAIVE), JStr(T_ZULU)}, val \in {JNum(15000), JStr(S_bad)},
        zid \in {JStr(S_4004), JStr(S_4001), JStr(S_ABC)}}

Payloads ==
    {JList(<<n>>) : n \in Nodes}
    \cup {JMap(<< <<"FiveMinuteEstimatedZonalLoads", JList(<<n>>)>> >>) :
            n \in Nodes}
    \cup {JList(<<n1, n2>>) : n1 \in BatchNodes, n2 \in BatchNodes}
    \cup {JList(<<>>), JMap(<<>>)}

\* payloads of the system endpoint
SysNode(t, val, lk, loc) ==
    JMap(Entry("BeginDate", t) \o Entry("LoadMw", val) \o Entry(lk, loc))

SysTimeInputs == {JStr(T_NAIVE), JStr(T_ZULU), JStr(<<>>), Absent}

SysValueInputs == {JNum(15000), JNum(0), JStr(S_bad), JList(<<>>), Absent}

LocInputs ==
    {JStr(S_ISONE), JStr(S_isone), JStr(S_NE), JStr(S_CT), JNum(4004),
     JMap(<< <<"text", JStr(S_CT)>> >>),
     JMap(<< <<"code", JNum(1)>>, <<"label", JStr(S_4004_padded)>> >>),
     JMap(<< <<"code", JNum(1)>> >>), Absent}

SysNodes ==
    {SysNode(t, val, "Location", loc) :
        t \in SysTimeInputs, val \in SysValueInputs, loc \in LocInputs}
    \cup {SysNode(JStr(T_ZULU), JNum(15000), lk, JStr(S_CT)) :
            lk \in {"Loc", "Zone", "LocName"}}

SysBatchNodes ==
    {SysNode(t, val, "Location", loc) :
        t \in {JStr(T_NAIVE), JStr(T_ZULU)}, val \in {JNum(15000), JStr(S_bad)},
        loc \in {JStr(S_CT), JStr(S_ISONE), Absent}}

SysPayloads ==
    {JMap(<< <<"FiveMinSystemLoad", JList(<<n>>)>> >>) : n \in SysNodes}
    \cup {JList(<<n>>) : n \in SysNodes}
    \cup SysNodes
    \cup {JMap(<< <<"FiveMinSystemLoad", n>> >>) : n \in SysNodes}
    \cup {JMap(<< <<"FiveMinSystemLoad", JList(<<n1, n2>>)>> >>) :
            n1 \in SysBatchNodes, n2 \in SysBatchNodes}
    \cup {JList(<<>>), JMap(<<>>)}

(***************************************************************************)
(* A normalizer driven by one call: the walk over the payload (for the     *)
(* system endpoint the fast path first), then either the tidy and the      *)
(* return of the frame or, when no record was found, the debug file and    *)
(* the ValueError.                                                         *)
(***************************************************************************)
Call(p) ==
    /\ nz.pc = "idle"
    /\ nz' = [nz EXCEPT !.pc = "walked", !.kind = "zonal", !.payload = p,
                        !.rows = Walk(p)]
    /\ UNCHANGED <<fs, calls, last, wr, committed, cyc, wh, lp>>

NormalizeCall == \E p \in Payloads : Call(p)

CallSystem(p) ==
    /\ nz.pc = "idle"
    /\ nz' = [nz EXCEPT !.pc = "walked", !.kind = "system", !.payload = p,
                        !.rows = SystemRows(p)]
    /\ UNCHANGED <<fs, calls, last, wr, committed, cyc, wh, lp>>

NormalizeCallSystem == \E p \in SysPayloads : CallSystem(p)

NormalizeReturn ==
    /\ nz.pc = "walked"
    /\ nz.rows # <<>>
    /\ nz' = [nz EXCEPT !.pc = "returned",
                        !.out = IF nz.kind = "zonal" THEN Tidy(nz.rows)
                                ELSE SortSystem(nz.rows)]
    /\ UNCHANGED <<fs, calls, last, wr, committed, cyc, wh, lp>>

\* json.dump(payload, f) into the debug file, nothing written
NoDump(payload) == JNull

\* json.dump(payload, f) into the debug file: what json.load gives back
DebugDump(payload) == payload

NormalizeDump ==
    /\ nz.pc = "walked"
    /\ nz.rows = <<>>
    /\ nz' = [nz EXCEPT !.pc = "dumped", !.debug = DebugDump(nz.payload)]
    /\ UNCHANGED <<fs, calls, last, wr, committed, cyc, wh, lp>>

NormalizeRaise ==
    /\ nz.pc = "dumped"
    /\ nz' = [nz EXCEPT !.pc = "raised"]
    /\ UNCHANGED <<fs, calls, last, wr, committed, cyc, wh, lp>>

NextNorm ==
    \/ NormalizeCall
    \/ NormalizeCallSystem
    \/ NormalizeReturn
    \/ NormalizeDump
    \/ NormalizeRaise

SpecNorm == Init /\ [][NextNorm]_vars

(***************************************************************************)
(* What a reader of a partition gets, and comparisons of frames.           *)
(***************************************************************************)
Partition(f, ds, d) == LoadOld(f, HistPath(ds, d))

Count(df, r) == Cardinality({i \in 1..Len(df) : df[i] = r})

\* the same rows, each the same number of times
SameRows(a, b) ==
    /\ Len(a) = Len(b)
    /\ \A i \in 1..Len(a) : Count(a, a[i]) = Count(b, a[i])

SortedByTs(df) ==
    \A i, j \in 1..Len(df) : i < j => df[i].ts_utc.n <= df[j].ts_utc.n

\* the identity of a canonical record: zone_id "4004" and a stored 4004 or
\* 4004.0 name the same zone
Canon(v) == IF v.ty = "str" /\ IsDigit(v.s) THEN IntV(StrToInt(v.s)) ELSE v

SameIdentity(r1, r2) ==
    ValEq(r1.ts_utc, r2.ts_utc) /\ ValEq(Canon(r1.id), Canon(r2.id))

KeysDistinct(df) ==
    \A i, j \in 1..Len(df) : i < j => ~SameIdentity(df[i], df[j])

LastCallDates == UtcDatesInDf(last.batch)

\* the last two calls offered the same batch to the same dataset
Repeated == last.ds # "none" /\ last.ds = last.pds /\ last.batch = last.pbatch

(***************************************************************************)
(* C1.  Appending a batch and then the same batch again leaves every       *)
(* affected day partition with the rows it had after the first call, and   *)
(* the same number of them.                                                *)
(***************************************************************************)
C1_SecondAppendChangesNothing ==
    Repeated =>
        \A d \in LastCallDates :
            /\ SameRows(Partition(last.before, last.ds, d), Partition(fs, last.ds, d))
            /\ Len(fs[HistPath(last.ds, d)].rows)
                 = Len(last.before[HistPath(last.ds, d)].rows)

\* the same statement for the system dataset alone
C1_SystemOnly == last.ds = "system" => C1_SecondAppendChangesNothing

(***************************************************************************)
(* C2.  Starting from an empty store, no history partition ever holds two  *)
(* rows with the same identity key, (ts_utc, location) or (ts_utc,         *)
(* zone_id).                                                               *)
(***************************************************************************)
KeyUnique(ds) == \A d \in Days : KeysDistinct(Partition(fs, ds, d))

C2_KeyUniqueness == \A ds \in Datasets : KeyUnique(ds)

\* the same statement for the system dataset alone
C2_SystemOnly == KeyUnique("system")

(***************************************************************************)
(* C3.  Two batches B1 and B2 of one dataset and one UTC day, with         *)
(* pairwise distinct identity keys, appended one after the other to an     *)
(* empty partition, leave a partition whose rows are those of B1 and B2,   *)
(* no more and no fewer, in ascending ts_utc order.                        *)
(***************************************************************************)
DisjointPair(d) ==
    /\ last.ds # "none" /\ last.pds = last.ds
    /\ UtcDatesInDf(last.batch) = {d}
    /\ UtcDatesInDf(last.pbatch) = {d}
    /\ ~last.pbefore[HistPath(last.ds, d)].exists
    /\ KeysDistinct(last.pbatch \o last.batch)

C3_MergeComplete ==
    \A d \in Days :
        DisjointPair(d) =>
            /\ SameRows(Partition(fs, last.ds, d),
                        ReadCsv(ToCsv(last.pbatch \o last.batch)))
            /\ SortedByTs(Partition(fs, last.ds, d))

\* B2 holds a row earlier than a row of B1, so the merge has to reorder
C3_Witness ==
    \E d \in Days :
        /\ DisjointPair(d)
        /\ last.batch[1].ts_utc.n < last.pbatch[Len(last.pbatch)].ts_utc.n

(***************************************************************************)
(* C4.  A row appended with the identity key of a stored row.              *)
(***************************************************************************)
\* the stored rows that drop_duplicates finds equal in key to the new row n
StoredWithKey(n, d) ==
    SelectSeq(Partition(last.before, last.ds, d),
              LAMBDA o : SameKey(o, n, KeyCols(last.ds)))

AfterWithKey(n, d) ==
    SelectSeq(Partition(fs, last.ds, d), LAMBDA o : SameKey(o, n, KeyCols(last.ds)))

Collisions ==
    {<<d, i>> \in LastCallDates \X (1..Len(last.batch)) :
        /\ DateOf(last.batch[i].ts_utc) = d
        /\ StoredWithKey(last.batch[i], d) # <<>>}

C5_OldOrNew ==
    \A w \in Writers :
        /\ wr[w].pc \in {"merged", "writing", "written"} => fs[CurPath(w)] = wr[w].snap
        /\ wr[w].pc = "renamed" => fs[CurPath(w)] = NewFile(w)

\* the temporary file is half written while the partition holds older rows
C5_Witness ==
    \E w \in Writers :
        /\ wr[w].pc = "writing"
        /\ wr[w].snap.exists
        /\ fs[TmpPath(CurPath(w))].rows # NewFile(w).rows
        /\ NewFile(w) # wr[w].snap

(***************************************************************************)
(* C6.  Whatever is interrupted, a partition file holds the result of the  *)
(* complete appends whose rename has happened and of nothing else: an      *)
(* append interrupted before its rename leaves the last committed content, *)
(* one interrupted after its rename leaves the fully merged content.       *)
(***************************************************************************)
C6_OnlyCommittedContent == \A p \in HistPaths : fs[p] = committed[p]

\* a writer was killed while writing the temporary file of a partition that
\* already held rows, and the half-written temporary file is still there
C6_Witness ==
    \E w \in Writers :
        /\ wr[w].crashed_at = "writing"
        /\ fs[CurPath(w)].exists
        /\ fs[TmpPath(CurPath(w))].exists
        /\ Len(fs[TmpPath(CurPath(w))].rows) < Len(fs[CurPath(w)].rows)

(***************************************************************************)
(* C7.  Calls running concurrently on different partitions do not          *)
(* interfere: a partition file changes only by the rename of the call that *)
(* is writing that partition, from the content that call read to the       *)
(* content that call alone gives from it, whatever the other call does in  *)
(* between; no other partition changes.                                    *)
(***************************************************************************)
AloneResult(w) ==
    AppendIdempotent([fs EXCEPT ![CurPath(w)] = wr[w].snap],
                     DayRows(wr[w].df, wr[w].date), CurPath(w),
                     KeyCols(wr[w].ds))[CurPath(w)]

C7_Step ==
    \A p \in HistPaths :
        fs'[p] # fs[p] =>
            \E w \in Writers :
                /\ wr[w].pc = "written"
                /\ CurPath(w) = p
                /\ fs[p] = wr[w].snap
                /\ fs'[p] = AloneResult(w)

C7_NoInterference == [][C7_Step]_vars

\* two calls are in the middle of their file operations at the same time
C7_Witness ==
    \E w, v \in Writers :
        /\ w # v
        /\ wr[w].pc = "written"
        /\ wr[v].pc \in {"writing", "written"}
        /\ CurPath(w) # CurPath(v)

(***************************************************************************)
(* C8.  In every ingestion cycle a failure of one dataset (fetch or        *)
(* normalization) does not keep the other dataset from being fetched and   *)
(* appended in that cycle.                                                 *)
(***************************************************************************)
Sibling(ds) == IF ds = "system" THEN "zonal" ELSE "system"

CycleOver == cyc.pc \in {"done", "raised"}

IndependentFailure(ds) ==
    (/\ CycleOver
     /\ Wanted(ds) /\ cyc.up[ds] = "ok"
     /\ Wanted(Sibling(ds)) /\ cyc.up[Sibling(ds)] # "ok")
        => ds \in cyc.appended

C8_IndependentFailureDomains == \A ds \in Datasets : IndependentFailure(ds)

\* the same statement for the backfill loops alone
C8_BackfillOnly == CatchesPerDataset(cyc.kind) => C8_IndependentFailureDomains

(***************************************************************************)
(* The node of a one-node payload, whatever wraps it.                      *)
(***************************************************************************)
RECURSIVE TheNode(_)
TheNode(p) ==
    IF p.ty = "list" /\ Len(p.xs) = 1 THEN TheNode(p.xs[1])
    ELSE IF p.ty = "map" /\ Len(p.es) = 1 /\ p.es[1][2].ty = "list"
         THEN TheNode(p.es[1][2])
         ELSE p

Returned == nz.pc = "returned" /\ nz.kind = "zonal"

(***************************************************************************)
(* C9.  Every record returned by the zonal normalize_payload has zone_id   *)
(* or zone_name non-null: a node whose zone id and zone name can both not  *)
(* be recovered contributes no record.                                     *)
(***************************************************************************)
C9_NeverBothNull ==
    Returned =>
        \A i \in 1..Len(nz.out) :
            nz.out[i].zone_id.ty # "null" \/ nz.out[i].zone_name.ty # "null"

(***************************************************************************)
(* C10.  For every pair (id, name) of the static zone table, a record      *)
(* carrying only the id is returned with zone_name = name, and a record    *)
(* carrying only the name is returned with zone_id = id.                   *)
(***************************************************************************)
OnlyId(n, id) ==
    /\ n.ty = "map"
    /\ FirstKey(n, ZONEID_KEYS) = JStr(id)
    /\ \A i \in 1..Len(ZONENM_KEYS) : ~HasKey(n, ZONENM_KEYS[i])

OnlyName(n, name) ==
    /\ n.ty = "map"
    /\ FirstKey(n, ZONENM_KEYS) = JStr(name)
    /\ \A i \in 1..Len(ZONEID_KEYS) : ~HasKey(n, ZONEID_KEYS[i])

HasTimeAndValue(n) ==
    FirstKey(n, TIME_KEYS).ty # "null" /\ FirstKey(n, VALUE_KEYS).ty # "null"

ZonePairs ==
    { <<S_4000, S_HUB>>, <<S_4001, S_ME>>, <<S_4002, S_NH>>, <<S_4003, S_VT>>,
      <<S_4004, S_CT>>, <<S_4005, S_RI>>, <<S_4006, S_SEMA>>,
      <<S_4007, S_WCMA>>, <<S_4008, S_NEMA_Boston>> }

C10_TableBackfill ==
    \A zp \in ZonePairs :
        LET n == TheNode(nz.payload)
        IN  (nz.pc \in {"returned", "raised"} /\ nz.kind = "zonal"
             /\ n.ty = "map"
             /\ HasTimeAndValue(n)
             /\ (OnlyId(n, zp[1]) \/ OnlyName(n, zp[2])))
            => /\ Returned
               /\ Len(nz.out) = 1
               /\ nz.out[1].zone_id = Str(zp[1])
               /\ nz.out[1].zone_name = Str(zp[2])

\* a record carrying only the name NEMA/Boston was returned with id 4008
C10_Witness ==
    /\ Returned
    /\ OnlyName(TheNode(nz.payload), S_NEMA_Boston)
    /\ nz.out[1].zone_id = Str(S_4008)

(***************************************************************************)
(* A whole call of a normalizer as one function of the payload; wrapping   *)
(* a payload one level deeper.                                             *)
(***************************************************************************)
Normalize(kind, p) ==
    LET rows == IF kind = "zonal" THEN Walk(p) ELSE SystemRows(p)
    IN  [raised |-> rows = <<>>,
         out |-> IF kind = "zonal" THEN Tidy(rows) ELSE SortSystem(rows)]

RecordSet(df) == {df[i] : i \in 1..Len(df)}

Wraps(p) == {JList(<<p>>), JMap(<< <<"data", p>> >>)}

CallOver == nz.pc \in {"returned", "raised"}

SameAsWrapped(kind) ==
    (CallOver /\ nz.kind = kind) =>
        \A w \in Wraps(nz.payload) :
            /\ Normalize(kind, w).raised = (nz.pc = "raised")
            /\ RecordSet(Normalize(kind, w).out) = RecordSet(nz.out)

(***************************************************************************)
(* C11.  For both dataset kinds, normalizing a payload and normalizing it  *)
(* wrapped one level deeper in an extra map or list give the same set of   *)
(* canonical records, the location and is_system fields of system records  *)
(* included.                                                               *)
(***************************************************************************)
C11_WrapEquivalence == SameAsWrapped("zonal") /\ SameAsWrapped("system")

\* the zonal normalizer alone
C11_ZonalOnly == SameAsWrapped("zonal")

(***************************************************************************)
(* The map nodes of a payload, and the nodes that hold a time and a value  *)
(* (and for the zonal endpoint a zone id or a zone name) under the keys a  *)
(* normalizer knows.                                                       *)
(***************************************************************************)
RECURSIVE MapNodes(_)
MapNodes(v) ==
    IF v.ty = "map"
    THEN {v} \cup UNION {MapNodes(v.es[i][2]) : i \in 1..Len(v.es)}
    ELSE IF v.ty = "list" THEN UNION {MapNodes(v.xs[i]) : i \in 1..Len(v.xs)}
    ELSE {}

Holds(n, keys) ==
    \E i \in 1..Len(keys) : HasKey(n, keys[i]) /\ NotBlank(Get(n, keys[i]))

Recognizable(kind, n) ==
    IF kind = "zonal"
    THEN /\ Holds(n, TIME_KEYS)
         /\ Holds(n, VALUE_KEYS)
         /\ (Holds(n, ZONEID_KEYS) \/ Holds(n, ZONENM_KEYS))
    ELSE Holds(n, SYS_TIME_KEYS) /\ Holds(n, SYS_VALUE_KEYS)

NothingRecognizable ==
    \A n \in MapNodes(nz.payload) : ~Recognizable(nz.kind, n)

(***************************************************************************)
(* C12.  For both normalizers, a payload in which no map node has a time   *)
(* key together with a value key (plus a zone id or name for zonal) makes  *)
(* normalize_payload raise, after the payload was written to the debug     *)
(* file; normalize_payload never returns an empty record set.              *)
(***************************************************************************)
C12_RaiseWithDebugNeverEmpty ==
    /\ (CallOver /\ NothingRecognizable) => nz.pc = "raised"
    /\ nz.pc = "raised" => nz.debug = nz.payload
    /\ nz.pc = "returned" => nz.out # <<>>

\* a non-empty system payload without a value was dumped and refused
C12_Witness ==
    /\ nz.pc = "raised"
    /\ nz.kind = "system"
    /\ NothingRecognizable
    /\ IsFastShape(nz.payload)
    /\ nz.debug = nz.payload

(***************************************************************************)
(* The recognizable nodes of a payload counted with their repetitions, and *)
(* the time and the value a node holds.                                    *)
(***************************************************************************)
RECURSIVE NodeCount(_, _)
RECURSIVE NodeCountAll(_, _)

NodeCount(kind, v) ==
    IF v.ty = "map"
    THEN (IF Recognizable(kind, v) THEN 1 ELSE 0)
         + NodeCountAll(kind, [i \in 1..Len(v.es) |-> v.es[i][2]])
    ELSE IF v.ty = "list" THEN NodeCountAll(kind, v.xs)
    ELSE 0

NodeCountAll(kind, xs) ==
    IF xs = <<>> THEN 0
    ELSE NodeCount(kind, Head(xs)) + NodeCountAll(kind, Tail(xs))

TimeOf(kind, n) ==
    FirstKey(n, IF kind = "zonal" THEN TIME_KEYS ELSE SYS_TIME_KEYS)

ValueOf(kind, n) ==
    FirstKey(n, IF kind = "zonal" THEN VALUE_KEYS ELSE SYS_VALUE_KEYS)

\* a value float() refuses: a text that is no number, a list, a map
Unparseable(v) ==
    \/ v.ty = "str" /\ ~IsDigit(Strip(v.s))
    \/ v.ty \in {"map", "list"}

BadValueNodes ==
    {n \in MapNodes(nz.payload) :
        Recognizable(nz.kind, n) /\ Unparseable(ValueOf(nz.kind, n))}

(***************************************************************************)
(* C13.  A map node with a time and a value that cannot be parsed as a     *)
(* number still contributes a record, with load_mw null: the call returns, *)
(* the record of that node is in the frame, and no record of the batch is  *)
(* lost.                                                                   *)
(***************************************************************************)
C13_UnparseableValueKept ==
    CallOver =>
        \A n \in BadValueNodes :
            /\ nz.pc = "returned"
            /\ Len(nz.out) = NodeCount(nz.kind, nz.payload)
            /\ \E i \in 1..Len(nz.out) :
                  /\ nz.out[i].load_mw = Null
                  /\ nz.out[i].ts_utc = TsUtc(ToDatetime(TimeOf(nz.kind, n)))

\* a batch of two records, one of them with an unparseable value
C13_Witness ==
    /\ nz.pc = "returned"
    /\ BadValueNodes # {}
    /\ Len(nz.out) = 2
    /\ \E i, j \in 1..2 : nz.out[i].load_mw = Null /\ nz.out[j].load_mw # Null

(***************************************************************************)
(* Segments and partitions as they are on disk.                            *)
(***************************************************************************)
SegPaths == {SegPath(ds, d) : ds \in Datasets, d \in Days}

HistoryFiles == {p \in Paths : p[1] \in {Prefix(ds) : ds \in Datasets}}

WarehouseFiles == {p \in Paths : p[1] \in {WhSubdir(ds) : ds \in Datasets}}

\* the segment files of (ds, d): what the glob of the views finds for it
SegmentsOf(f, ds, d) == {p \in SegGlob(f, ds) : p[2] = d}

RECURSIVE SumOver(_, _)
SumOver(F, S) ==
    IF S = {} THEN 0
    ELSE LET x == CHOOSE y \in S : TRUE IN F[x] + SumOver(F, S \ {x})

SameHistory(f, g) == \A p \in HistoryFiles : f[p] = g[p]

(***************************************************************************)
(* C14.  Running rebuild() twice with no append in between gives, for      *)
(* every (dataset, date), a segment with the same multiset of rows both    *)
(* times, the same set of segment files, and the same rows_written.        *)
(***************************************************************************)
TwoRebuildsSameHistory == wh.builds = 2 /\ SameHistory(wh.phist, wh.hist)

C14_RebuildReproducible ==
    TwoRebuildsSameHistory =>
        /\ \A p \in WarehouseFiles :
              /\ wh.pfiles[p].exists = fs[p].exists
              /\ SameRows(wh.pfiles[p].rows, fs[p].rows)
        /\ wh.pwritten = wh.written

\* two rebuilds of a store holding a system and a zonal partition
C14_Witness ==
    /\ TwoRebuildsSameHistory
    /\ \A ds \in Datasets : wh.written[ds] > 0

(***************************************************************************)
(* C15.  After a rebuild every history partition has exactly one segment   *)
(* file, the segment has one row per row of the partition as it was at     *)
(* that rebuild, and rows_written of a dataset is the total number of rows *)
(* of its partitions.                                                      *)
(***************************************************************************)
PartitionRows(f, ds, d) == f[HistPath(ds, d)].rows

C15_OneSegmentPerPartition ==
    wh.builds >= 1 =>
        \A ds \in Datasets :
            /\ \A d \in Days :
                  IF wh.hist[HistPath(ds, d)].exists
                  THEN /\ Cardinality(SegmentsOf(fs, ds, d)) = 1
                       /\ LET seg == fs[SegPath(ds, d)].rows
                              part == PartitionRows(wh.hist, ds, d)
                          IN  /\ Len(seg) = Len(part)
                              /\ \A i \in 1..Len(seg) :
                                    seg[i].ts_utc = part[i].ts_utc
                  ELSE SegmentsOf(fs, ds, d) = {}
            /\ wh.written[ds] =
                  SumOver([d \in Days |-> Len(PartitionRows(wh.hist, ds, d))],
                          Days)

\* a rebuild, an append to a partition already in the warehouse, a rebuild
C15_Witness ==
    /\ wh.builds = 2
    /\ \E ds \in Datasets, d \in Days :
          /\ wh.phist[HistPath(ds, d)].exists
          /\ Len(PartitionRows(wh.hist, ds, d))
                > Len(PartitionRows(wh.phist, ds, d))

(***************************************************************************)
(* C16.  Only append_batch changes history partition files: rebuild() and  *)
(* the definition of the views leave every history file unchanged, and the *)
(* definition of the views leaves every segment file unchanged.            *)
(***************************************************************************)
HistoryUnchanged == \A p \in HistoryFiles : fs'[p] = fs[p]

WarehouseUnchanged == \A p \in WarehouseFiles : fs'[p] = fs[p]

C16_Step ==
    /\ Rebuild => HistoryUnchanged
    /\ CreateDuckdbViews => HistoryUnchanged /\ WarehouseUnchanged

C16_OnlyAppendWritesHistory == [][C16_Step]_vars

\* the views were defined and a rebuild has run over a store with a file
C16_Witness ==
    /\ wh.builds >= 1
    /\ \A ds \in Datasets : wh.views[ds].defined
    /\ \E p \in HistPaths : wh.hist[p].exists

(***************************************************************************)
(* C17.  Once a view is defined, a query on it returns the rows of all the *)
(* segment files of its dataset that are on disk at query time, segments   *)
(* written by a later rebuild included; redefining the views does not      *)
(* change what a query returns.                                            *)
(***************************************************************************)
OnDisk(ds) ==
    [d \in Days |-> IF fs[SegPath(ds, d)].exists THEN fs[SegPath(ds, d)].rows
                    ELSE <<>>]

QueryIsUnionOfSegments(ds) ==
    LET answer == Query(wh.views[ds], fs, ds)
    IN  /\ Len(answer) = SumOver([d \in Days |-> Len(OnDisk(ds)[d])], Days)
        /\ \A d \in Days : \A i \in 1..Len(OnDisk(ds)[d]) :
              Count(answer, OnDisk(ds)[d][i])
                = SumOver([e \in Days |-> Count(OnDisk(ds)[e], OnDisk(ds)[d][i])],
                          Days)

RedefinitionKeepsAnswers ==
    CreateDuckdbViews =>
        \A ds \in Datasets :
            wh.views[ds].defined =>
                Query(wh.views[ds]', fs', ds) = Query(wh.views[ds], fs, ds)

C17_ViewsFollowSegments ==
    /\ [](\A ds \in Datasets : wh.views[ds].defined => QueryIsUnionOfSegments(ds))
    /\ [][RedefinitionKeepsAnswers]_vars

\* a rebuild after the definition of the views has changed the segments
C17_Witness ==
    \E ds \in Datasets :
        /\ wh.views[ds].defined
        /\ ReadParquet(fs, ds) # ReadParquet(wh.vfiles, ds)
        /\ Len(Query(wh.views[ds], fs, ds)) >= 2

(***************************************************************************)
(* C18.  After any sequence of appends, every row stored in the partition  *)
(* of (dataset, date D) has a ts_utc whose UTC calendar date is D, and     *)
(* every row of an appended batch is offered to exactly one partition, the *)
(* one of its ts_utc's UTC date.                                           *)
(***************************************************************************)
\* ts is an instant of the calendar day d
OnDay(ts, d) ==
    /\ ts.ty = "ts"
    /\ d * TicksPerDay <= ts.n
    /\ ts.n < (d + 1) * TicksPerDay

StoredOnTheirDay(ds, d) ==
    \A i \in 1..Len(Partition(fs, ds, d)) :
        OnDay(Partition(fs, ds, d)[i].ts_utc, d)

\* the partitions the last call offered row i of its batch to
OfferedTo(i) ==
    {d \in UtcDatesInDf(last.batch) :
        \E j \in 1..Len(DayRows(last.batch, d)) :
            DayRows(last.batch, d)[j] = last.batch[i]}

OfferedToItsDay(i) ==
    /\ Cardinality(OfferedTo(i)) = 1
    /\ \A d \in OfferedTo(i) : OnDay(last.batch[i].ts_utc, d)

C18_PartitionedByUtcDate ==
    /\ \A ds \in Datasets, d \in Days : StoredOnTheirDay(ds, d)
    /\ \A i \in 1..Len(last.batch) : OfferedToItsDay(i)

\* the same for the records that have a ts_utc
C18_DatedRowsOnly ==
    /\ \A ds \in Datasets, d \in Days \ {NaTDate} : StoredOnTheirDay(ds, d)
    /\ \A i \in 1..Len(last.batch) :
          last.batch[i].ts_utc.ty = "ts" => OfferedToItsDay(i)

(***************************************************************************)
(* C19.  For every date of the mapping an append returns, the rows-added   *)
(* is the partition's row count after the call minus its row count before; *)
(* it is 0 when every key of the batch was already stored, and it is never *)
(* negative nor larger than the number of batch rows of that date.         *)
(***************************************************************************)
RowCount(f, ds, d) == Len(f[HistPath(ds, d)].rows)

\* every record of the last batch for date d has its identity in the
\* partition as it was before the call
AllKeysStored(d) ==
    \A i \in 1..Len(DayRows(last.batch, d)) :
        \E j \in 1..Len(Partition(last.before, last.ds, d)) :
            SameIdentity(DayRows(last.batch, d)[i],
                         Partition(last.before, last.ds, d)[j])

RowsAddedRight(d, added) ==
    /\ added = RowCount(fs, last.ds, d) - RowCount(last.before, last.ds, d)
    /\ added >= 0
    /\ added <= Len(DayRows(last.batch, d))
    /\ AllKeysStored(d) => added = 0

C19_RowsAddedIsTheGrowth ==
    last.ds # "none" =>
        /\ {e[1] : e \in last.added} = UtcDatesInDf(last.batch)
        /\ \A e \in last.added : RowsAddedRight(e[1], e[2])

\* the same statement for the system dataset alone
C19_SystemOnly == last.ds = "system" => C19_RowsAddedIsTheGrowth

(***************************************************************************)
(* A payload with its wrapped labels written plainly: under a location,    *)
(* zone id or zone name key, a map that holds a text under a text-holder   *)
(* key is replaced by that text.                                           *)
(***************************************************************************)
InKeys(k, keys) == \E i \in 1..Len(keys) : keys[i] = k

LabelKey(k) ==
    InKeys(k, ZONEID_KEYS) \/ InKeys(k, ZONENM_KEYS) \/ InKeys(k, LOC_KEYS)

HoldsText(v) ==
    /\ v.ty = "map"
    /\ \E i \in 1..Len(TEXT_KEYS) :
          HasKey(v, TEXT_KEYS[i]) /\ TextMember(Get(v, TEXT_KEYS[i]))

HeldText(v) ==
    LET held == {i \in 1..Len(TEXT_KEYS) :
                    HasKey(v, TEXT_KEYS[i]) /\ TextMember(Get(v, TEXT_KEYS[i]))}
    IN  Strip(Get(v, TEXT_KEYS[CHOOSE i \in held : \A j \in held : i <= j]).s)

RECURSIVE Plain(_)
Plain(v) ==
    IF v.ty = "map"
    THEN JMap([i \in 1..Len(v.es) |->
                 IF LabelKey(v.es[i][1]) /\ HoldsText(v.es[i][2])
                 THEN <<v.es[i][1], JStr(HeldText(v.es[i][2]))>>
                 ELSE <<v.es[i][1], Plain(v.es[i][2])>>])
    ELSE IF v.ty = "list" THEN JList([i \in 1..Len(v.xs) |-> Plain(v.xs[i])])
    ELSE v

HasWrappedLabel(p) == Plain(p) # p

UnwrapsLabels(kind) ==
    (nz.pc = "returned" /\ nz.kind = kind /\ HasWrappedLabel(nz.payload)) =>
        /\ ~Normalize(kind, Plain(nz.payload)).raised
        /\ Normalize(kind, Plain(nz.payload)).out = nz.out

(***************************************************************************)
(* C20.  For both dataset kinds, a record whose location, zone id or zone  *)
(* name is a nested object holding its text under a text-holder key        *)
(* normalizes to the same canonical record as the record with the plain    *)
(* text: {"text": "CT"} gives what "CT" gives.                             *)
(***************************************************************************)
C20_TextHolderUnwrapped == UnwrapsLabels("zonal") /\ UnwrapsLabels("system")

\* the same statement for the system normalizer alone
C20_SystemUnwraps == UnwrapsLabels("system")

(***************************************************************************)
(* What the parity card should show for the files the dashboard read: the  *)
(* system load of the system table's latest timestamp against the zonal    *)
(* loads of that same timestamp.                                           *)
(***************************************************************************)
CardTs == MaxTs(ReadParquet(wh.cfiles, "system"))

SystemAt(ts) == WhereTs(ReadParquet(wh.cfiles, "system"), ts)

ZonesAt(ts) == WhereTs(ReadParquet(wh.cfiles, "zonal"), ts)

CardShown == wh.card.shown /\ ~wh.card.na /\ ~wh.card.nan

CardCompares(ts) ==
    /\ wh.card.system = SystemAt(ts)[1].load_mw.n
    /\ wh.card.zones_sum = SumLoads(ZonesAt(ts))
    /\ wh.card.text = FmtCard(SumLoads(ZonesAt(ts)) - SystemAt(ts)[1].load_mw.n,
                              SystemAt(ts)[1].load_mw.n)

S_Plus50 == <<"+", "5", "0", ".", "0", " ", "M", "W", " ", "(", "+", "0", ".",
              "3", "3", "%", ")">>

\* system 15000.0 and zones summing to 15050.0 give +50.0 MW (+0.33%)
CardExample ==
    (wh.card.system = 15000 /\ wh.card.zones_sum = 15050) =>
        wh.card.text = S_Plus50

LatestCoincide ==
    MaxTs(ReadParquet(wh.cfiles, "system")) = MaxTs(ReadParquet(wh.cfiles, "zonal"))

(***************************************************************************)
(* C21.  After any sequence of system and zonal appends and rebuilds, the  *)
(* parity card compares the system load with the sum of the zonal loads of *)
(* the same timestamp and reports delta = zonal sum - system load and      *)
(* delta / system load as a percentage (15000 against 15050 gives          *)
(* "+50.0 MW (+0.33%)"), also when the latest timestamp of one dataset is  *)
(* ahead of the other's.                                                   *)
(***************************************************************************)
C21_ParityOfSameTimestamp ==
    CardShown => CardCompares(CardTs) /\ CardExample

\* the same statement for the runs of the dashboard in which the two tables
\* have the same latest timestamp
C21_WhenLatestCoincide ==
    (CardShown /\ LatestCoincide) => CardCompares(CardTs) /\ CardExample

\* the card of the example has been shown
CardExampleShown ==
    /\ CardShown /\ LatestCoincide
    /\ wh.card.system = 15000 /\ wh.card.zones_sum = 15050

(***************************************************************************)
(* C22.  In the polling loops a cycle that raises does not end the loop:   *)
(* the next cycle is still attempted at the next interval.  This is said   *)
(* of run_loop of poll_isone_to_history.py and of run_loop of pipeline.py, *)
(* with and without --only.                                                *)
(***************************************************************************)
EndedByError == lp.pc = "crashed"

\* after a cycle that raised, the loop is on its way to the next cycle
\* unless it was told to stop
GoesOnAfterError ==
    (lp.raised > 0 /\ ~lp.stop /\ lp.pc # "ended") => Live

C22_ErrorDoesNotEndLoop == ~EndedByError /\ GoesOnAfterError

\* the same statement for run_loop of poll_isone_to_history.py alone
C22_PollLoopOnly == lp.loop = "poll" => C22_ErrorDoesNotEndLoop

\* the poll loop has started a cycle after one that raised
PollLoopWentOn == lp.loop = "poll" /\ lp.raised > 0 /\ lp.pc = "cycle"

(***************************************************************************)
(* C23.  In run_loop of pipeline.py, once a signal has set the stop flag:  *)
(* a cycle is only started when the loop tested the flag before it was     *)
(* set, so at most one cycle starts after the flag is set; a running cycle *)
(* completes; at most one cycle or sleep is begun with the flag set; and   *)
(* the loop ends, provided the running cycle returns.                      *)
(***************************************************************************)
PipelineLoop == lp.loop = "pipeline"

StartsOnlyWhenSeenClear ==
    (PipelineLoop /\ lp.pc \in {"call", "cycle"}) => ~lp.seen

AtMostOneMore ==
    PipelineLoop => lp.late_cycles + lp.late_sleeps <= 1

\* the running cycle returns: the loop is not inside an unfinished cycle
\* for ever
CycleReturns == []<>(~InCycle \/ cyc.pc \in {"done", "raised"})

StopEndsLoop ==
    CycleReturns => ((PipelineLoop /\ lp.stop) ~> (lp.pc \in {"ended", "crashed"}))

C23_StopEndsLoopAfterOneStep ==
    /\ [](StartsOnlyWhenSeenClear /\ AtMostOneMore)
    /\ StopEndsLoop

\* the flag was set between the test and the call, the cycle ran and the
\* loop ended
C23_Witness ==
    PipelineLoop /\ lp.stop /\ lp.late_cycles = 1 /\ lp.pc = "ended"

\* the statement as the specification has it: no cycle is started once the
\* flag is set
NoCycleAfterStop == PipelineLoop => lp.late_cycles = 0

C23_NoCycleStartsAfterStop ==
    /\ [](NoCycleAfterStop /\ (PipelineLoop => lp.late_sleeps <= 1))
    /\ StopEndsLoop

(***************************************************************************)
(* Leftover temporary files and what the scans and the views make of them. *)
(***************************************************************************)
HistTmpPaths == {TmpPath(HistPath(ds, d)) : ds \in Datasets, d \in Days}

SegTmpPaths == {SegTmp(SegPath(ds, d)) : ds \in Datasets, d \in Days}

\* the value of a cell text that is a number
CellNumber(c) ==
    IF IsIntText(c) THEN StrToInt(c) ELSE StrToInt(SubSeq(c, 1, Len(c) - 2))

IsNumberText(c) == IsIntText(c) \/ IsFloatText(c)

\* a value of a segment row is what a reader makes of the cell text c
FromCell(v, c) ==
    \/ c = <<>> /\ (v.ty = "null" \/ v = Str(S_nan))
    \/ v.ty = "str" /\ v.s = c
    \/ /\ IsNumberText(c)
       /\ \/ IsNum(v) /\ v.n = CellNumber(c)
          \/ v.ty = "str" /\ IsNumberText(v.s) /\ CellNumber(v.s) = CellNumber(c)

FromCsvRow(row, r) ==
    /\ row.ts_utc = r.ts_utc
    /\ FromCell(row.id, r.id)
    /\ FromCell(row.load_mw, r.load_mw)

\* row is a row of a committed partition of ds
RowCommitted(row, ds) ==
    \E d \in Days : \E i \in 1..Len(committed[HistPath(ds, d)].rows) :
        FromCsvRow(row, committed[HistPath(ds, d)].rows[i])

ScanSkipsTemp == \A ds \in Datasets : HistGlob(fs, ds) \subseteq HistPaths

ViewGlobSkipsTemp == \A ds \in Datasets : SegGlob(fs, ds) \subseteq SegPaths

ViewsHoldCommittedRows ==
    \A ds \in Datasets :
        wh.views[ds].defined =>
            \A i \in 1..Len(Query(wh.views[ds], fs, ds)) :
                RowCommitted(Query(wh.views[ds], fs, ds)[i], ds)

(***************************************************************************)
(* C24.  A temporary file left by an append or a rebuild that was          *)
(* interrupted before its rename is never read as data: the scan of the    *)
(* history partitions does not match a leftover partition temp file, the   *)
(* segment glob of the views does not match a leftover segment temp file,  *)
(* and after any sequence of appends, rebuilds and interruptions the views *)
(* hold only rows of committed partitions.                                 *)
(***************************************************************************)
C24_TempFilesNeverRead ==
    ScanSkipsTemp /\ ViewGlobSkipsTemp /\ ViewsHoldCommittedRows

\* a partition temp file with a row that was never committed was on disk
\* when the last rebuild scanned the history, a segment temp file with rows
\* is on disk, and a view is defined and answers with rows
C24_Witness ==
    /\ wh.builds >= 1
    /\ \E ds \in Datasets : \E p \in HistTmpPaths :
          /\ p[1] = Prefix(ds)
          /\ wh.hist[p].exists /\ fs[p] = wh.hist[p]
          /\ \E i \in 1..Len(fs[p].rows) :
                ~\E d \in Days : \E j \in 1..Len(committed[HistPath(ds, d)].rows) :
                    committed[HistPath(ds, d)].rows[j] = fs[p].rows[i]
    /\ \E p \in SegTmpPaths : fs[p].exists /\ fs[p].rows # <<>>
    /\ \E ds \in Datasets :
          wh.views[ds].defined /\ Query(wh.views[ds], fs, ds) # <<>>

=============================================================================
